---------------------------- MODULE Spec2Model ----------------------------
(***************************************************************************)
(* A model of the datacat pipeline engine: RunTask (tasks/run.go) builds   *)
(* and starts one source, the configured adapters and two target           *)
(* instances, each of which runs one goroutine; the goroutines hand rows   *)
(* over unbuffered channels, a closed channel ends the reader's loop, and  *)
(* a sync.WaitGroup tells RunTask when every goroutine has returned.       *)
(* log.Fatal / log.Fatalf end the process at once (os.Exit(1)): no         *)
(* deferred call runs and no goroutine takes another step.                 *)
(***************************************************************************)
EXTENDS Integers, Sequences, FiniteSets, TLC

(***************************************************************************)
(* Bounds of the model.                                                    *)
(***************************************************************************)
MaxRows == 2
MaxAdapters == 2

(***************************************************************************)
(* Program constants.                                                      *)
(***************************************************************************)
NumTargets == 2

SourceTypes == {"database-query-source", "jsonl-file-source"}
AdapterTypes == {"case-conversion-adapter", "constant-mapping-adapter",
                 "cast-to-datatype-adapter", "crypto-aescbczero-adapter",
                 "names-randomizer-adapter", "null-handling-adapter"}
TargetTypes == {"jsonl-file-target", "http-request-target"}

(***************************************************************************)
(* Values of a row's field.  "null" is the Go nil value stored under the   *)
(* key, "absent" is a missing key; "a", "A" and "1" are strings and "i1"   *)
(* is the int64 1 (the other values are listed with fmt.Sprint below).     *)
(***************************************************************************)
NULL == "null"
ABSENT == "absent"
SourceValues == {"a", "1", NULL}

NoRow == [id |-> 0, name |-> ABSENT]

(***************************************************************************)
(* The configurations the model draws a task from.  An adapter has a type  *)
(* tag and the argument its Run switches on (datatype or handling); the    *)
(* adapters are listed in the order GetAdapterNames returns them.          *)
(***************************************************************************)
AdapterConfigs ==
    { [type |-> "cast-to-datatype-adapter", arg |-> "int64"],
      [type |-> "case-conversion-adapter", arg |-> "upper"],
      [type |-> "case-conversion-adapter", arg |-> "camel"],
      [type |-> "null-handling-adapter", arg |-> "remove"],
      [type |-> "null-handling-adapter", arg |-> "keep"],
      [type |-> "xml-adapter", arg |-> "none"] }

SeqsUpTo(S, n) == UNION { [1..k -> S] : k \in 0..n }

ValidConfigs ==
    [ taskKnown : {TRUE}, sourceType : {"jsonl-file-source"},
      targetType : {"jsonl-file-target"},
      adapters : SeqsUpTo(AdapterConfigs, MaxAdapters),
      rows : SeqsUpTo(SourceValues, MaxRows) ]

BrokenConfigs ==
    [ taskKnown : BOOLEAN, sourceType : {"jsonl-file-source", "csv-file-source"},
      targetType : {"jsonl-file-target", "http-request-target", "csv-file-target"},
      adapters : SeqsUpTo({[type |-> "case-conversion-adapter", arg |-> "upper"]}, 1),
      rows : SeqsUpTo({"a"}, 1) ]

Configs == ValidConfigs \cup BrokenConfigs

(***************************************************************************)
(* Stage ids: 0 is the source, 1..NA the adapters in start order, the      *)
(* next NumTargets ids the target instances.  The channel a stage makes    *)
(* in its Run carries the id of that stage.                                *)
(***************************************************************************)
MainId == -1
NoStage == -2
NoChan == -1
MaxStage == MaxAdapters + NumTargets
Stages == 0..MaxStage
Chans == 0..MaxAdapters

NoFatal == [who |-> NoStage, cause |-> "none", row |-> 0]

VARIABLES
    cfg,        \* the resolved configuration of the task (core.Config)
    mainPc,     \* position of RunTask
    adIdx,      \* index of the adapter the loop of run.go:49 is at
    tgIdx,      \* the variable i of the loop of run.go:55
    pipe,       \* the variable pipe of run.go:43
    wg,         \* the counter of the sync.WaitGroup
    pc,         \* position of each stage's goroutine
    in,         \* the channel each stage's goroutine ranges over
    hold,       \* the row a goroutine has in its variable row
    srcIdx,     \* the next line of the source's input
    closed,     \* closed[c]: close(out) was called on channel c
    halted,     \* os.Exit(1) was called
    fatal,      \* who called log.Fatal, why, and on which row
    sent,       \* history: the rows each stage sent on its channel
    recvd,      \* history: the rows each stage received
    written,    \* history: the rows each target wrote
    doneCalls,  \* history: number of wg.Done() calls of each stage
    conf,       \* core.Config.Tasks: the tasks of the configuration file
    taskName,   \* the argument of RunTask
    rpc,        \* position of RunTask while it resolves and builds stages
    names,      \* the slice the loop of run.go:49 ranges over
    nameIdx,    \* index of that loop in names
    built,      \* the stages the builders have returned to RunTask
    rfatal,     \* why log.Fatalf was called while resolving, or "none"
    call,       \* the last call of a lookup or of BuildTarget and its result
    namesSeen,  \* history: the slices GetAdapterNames(taskName) returned
    stKind,     \* the Run method a stage goroutine is an instance of
    stPc,       \* position of that goroutine
    stOpen,     \* the external resources the goroutine holds open
    stDefers,   \* the deferred calls of the goroutine, last deferred first
    stLog,      \* history: opens, closes and wg.Done() of the goroutine
    stLeft,     \* rows the goroutine has yet to move
    stExit,     \* the process has ended: "no", "fatal" or "returned"
    stQLen,     \* len(src.query) of a database source, in bytes
    acfg,       \* the configuration one adapter instance was built from
    apc,        \* position of that adapter's goroutine
    arow,       \* the variable row of its loop
    arecv,      \* history: the row as it was received
    asent,      \* history: the last row sent on out
    anum,       \* history: number of rows received
    grand,      \* the state of the global generator of math/rand
    amap,       \* the field mapData of a constant-mapping adapter
    nseed,      \* the seed argument of a names-randomizer adapter
    nrng,       \* the field rng of each of two instances built from it
    nin,        \* the rows both instances receive
    npos,       \* the row each instance is at
    nout,       \* history: the names each instance has assigned
    cvar,       \* the task function that chains the stages
    cnum,       \* number of adapters (or changes) of the task
    crows,      \* number of rows the chain's source reads
    cmain,      \* position of that function
    cadx,       \* index of its loop over the adapters
    cprev,      \* its variable prev (ch in ExecuteFetch)
    cnext,      \* its variable next (ch2 in ExecuteFetch)
    cpc,        \* position of each stage goroutine of the chain
    cin,        \* the channel each of them ranges over
    chold,      \* the row each of them holds
    csrc,       \* the next row of the chain's source
    cclosed,    \* the closed channels of the chain
    cwg,        \* the counter of the chain's sync.WaitGroup
    cgot,       \* history: the rows the chain's consumer was given
    kkey,       \* the field key of a crypto adapter, one byte of it
    kiv,        \* its field iv
    kplain,     \* the plaintext given to encryptAESCBCWithZeropad
    kcipher,    \* the base64 text it returned
    kback,      \* what decryptAESCBCZeropad returned for that text
    kpc         \* which of the two calls have been made

pipeVars == << cfg, mainPc, adIdx, tgIdx, pipe, wg, pc, in, hold, srcIdx,
               closed, halted, fatal, sent, recvd, written, doneCalls >>
resolveVars == << conf, taskName, rpc, names, nameIdx, built, rfatal, call,
                  namesSeen >>
stageVars == << stKind, stPc, stOpen, stDefers, stLog, stLeft, stExit,
               stQLen >>
rowVars == << acfg, apc, arow, arecv, asent, anum, grand, amap >>
randVars == << nseed, nrng, nin, npos, nout >>
chainVars == << cvar, cnum, crows, cmain, cadx, cprev, cnext, cpc, cin, chold, csrc,
                cclosed, cwg, cgot >>
cryptoVars == << kkey, kiv, kplain, kcipher, kback, kpc >>
extraVars == << rowVars, randVars, chainVars, cryptoVars >>
auxVars == << resolveVars, stageVars, extraVars >>
vars == << pipeVars, resolveVars, stageVars, extraVars >>

NA == Len(cfg.adapters)
Adapters == 1..NA
Targets == (NA + 1)..(NA + NumTargets)
IsTarget(s) == s \in Targets
IsAdapter(s) == s \in Adapters

NoCall == [fn |-> "none", task |-> "none", key |-> 0, err |-> FALSE,
           names |-> << >>, inst |-> "none"]

ResolveIdle ==
    /\ conf = << >>
    /\ taskName = "none"
    /\ rpc = "idle"
    /\ names = << >>
    /\ nameIdx = 1
    /\ built = << >>
    /\ rfatal = "none"
    /\ call = NoCall
    /\ namesSeen = {}

StageIdle ==
    /\ stKind = "none"
    /\ stPc = "idle"
    /\ stOpen = {}
    /\ stDefers = << >>
    /\ stLog = << >>
    /\ stLeft = 0
    /\ stExit = "no"
    /\ stQLen = 0

NoRec == [id |-> 0, name |-> ABSENT, other |-> ABSENT]
NoAdapter == [type |-> "none", arg |-> "none", fields |-> << >>]

RowIdle ==
    /\ acfg = NoAdapter
    /\ apc = "idle"
    /\ arow = NoRec
    /\ arecv = NoRec
    /\ asent = NoRec
    /\ anum = 0
    /\ grand = 0
    /\ amap = << >>

RandIdle ==
    /\ nseed = "none"
    /\ nrng = << >>
    /\ nin = << >>
    /\ npos = << >>
    /\ nout = << >>

ChainIdle ==
    /\ cvar = "none"
    /\ cnum = 0
    /\ crows = 0
    /\ cmain = "idle"
    /\ cadx = 1
    /\ cprev = NoChan
    /\ cnext = NoChan
    /\ cpc = << >>
    /\ cin = << >>
    /\ chold = << >>
    /\ csrc = 1
    /\ cclosed = {}
    /\ cwg = 0
    /\ cgot = << >>

CryptoIdle ==
    /\ kkey = 0
    /\ kiv = << >>
    /\ kplain = << >>
    /\ kcipher = << >>
    /\ kback = << >>
    /\ kpc = "idle"

ExtraIdle == RowIdle /\ RandIdle /\ ChainIdle /\ CryptoIdle

Init ==
    /\ ResolveIdle
    /\ StageIdle
    /\ ExtraIdle
    /\ cfg \in Configs
    /\ mainPc = "source"
    /\ adIdx = 1
    /\ tgIdx = 0
    /\ pipe = NoChan
    /\ wg = 0
    /\ pc = [s \in Stages |-> "unstarted"]
    /\ in = [s \in Stages |-> NoChan]
    /\ hold = [s \in Stages |-> NoRow]
    /\ srcIdx = 1
    /\ closed = [c \in Chans |-> FALSE]
    /\ halted = FALSE
    /\ fatal = NoFatal
    /\ sent = [s \in Stages |-> << >>]
    /\ recvd = [s \in Stages |-> << >>]
    /\ written = [s \in Stages |-> << >>]
    /\ doneCalls = [s \in Stages |-> 0]

(***************************************************************************)
(* log.Fatalf: the diagnostic is printed and the process exits.            *)
(***************************************************************************)
FatalLogOnly(who, cause, row) ==
    /\ halted' = halted
    /\ fatal' = [who |-> who, cause |-> cause, row |-> row]

Fatal(who, cause, row) ==
    /\ halted' = TRUE
    /\ fatal' = [who |-> who, cause |-> cause, row |-> row]

(***************************************************************************)
(* The registries: the chains of Isa... tests of the builders.             *)
(***************************************************************************)
IsKnownSourceType(t) == t \in SourceTypes
IsKnownAdapterTypeOld(t) ==
    t \in {"cast-to-datatype-adapter", "crypto-aescbczero-adapter",
           "null-handling-adapter", "names-randomizer-adapter"}
IsKnownAdapterType(t) == t \in AdapterTypes
IsKnownTargetType(t) == t \in TargetTypes

(***************************************************************************)
(* wg.Add(1), the first thing every Run does before its go statement.      *)
(***************************************************************************)
WgAddMissing == wg' = wg
WgAddTwice == wg' = wg + 2
WgAdd == wg' = wg + 1

(***************************************************************************)
(* RunTask, run.go:45-47: BuildSource, then source.Run(&wg), which adds    *)
(* one to the wait group and starts the goroutine.                         *)
(***************************************************************************)
StartSourceUnregistered ==
    /\ ~halted
    /\ UNCHANGED auxVars
    /\ mainPc = "source"
    /\ IF ~cfg.taskKnown
         THEN /\ Fatal(MainId, "unknown-task", 0)
              /\ UNCHANGED << mainPc, pipe, wg, pc >>
         ELSE IF ~IsKnownSourceType(cfg.sourceType)
         THEN /\ Fatal(MainId, "unknown-source-type", 0)
              /\ UNCHANGED << mainPc, pipe, wg, pc >>
         ELSE /\ wg' = wg
              /\ pc' = [pc EXCEPT ![0] = "read"]
              /\ pipe' = 0
              /\ mainPc' = IF NA = 0 THEN "targets" ELSE "adapters"
              /\ UNCHANGED << halted, fatal >>
    /\ UNCHANGED << cfg, adIdx, tgIdx, in, hold, srcIdx, closed,
                    sent, recvd, written, doneCalls >>

StartSource ==
    /\ ~halted
    /\ UNCHANGED auxVars
    /\ mainPc = "source"
    /\ IF ~cfg.taskKnown
         THEN /\ Fatal(MainId, "unknown-task", 0)
              /\ UNCHANGED << mainPc, pipe, wg, pc >>
         ELSE IF ~IsKnownSourceType(cfg.sourceType)
         THEN /\ Fatal(MainId, "unknown-source-type", 0)
              /\ UNCHANGED << mainPc, pipe, wg, pc >>
         ELSE /\ WgAdd
              /\ pc' = [pc EXCEPT ![0] = "read"]
              /\ pipe' = 0
              /\ mainPc' = IF NA = 0 THEN "targets" ELSE "adapters"
              /\ UNCHANGED << halted, fatal >>
    /\ UNCHANGED << cfg, adIdx, tgIdx, in, hold, srcIdx, closed,
                    sent, recvd, written, doneCalls >>

(***************************************************************************)
(* RunTask, run.go:49-53: BuildAdapter for the next adapter name, then     *)
(* adapter.Run(&wg, pipe).                                                 *)
(***************************************************************************)
StartAdapterStalePipe ==
    /\ ~halted
    /\ UNCHANGED auxVars
    /\ mainPc = "adapters"
    /\ IF ~IsKnownAdapterType(cfg.adapters[adIdx].type)
         THEN /\ Fatal(MainId, "unknown-adapter-type", 0)
              /\ UNCHANGED << mainPc, adIdx, pipe, wg, pc, in >>
         ELSE /\ WgAdd
              /\ in' = [in EXCEPT ![adIdx] = 0]
              /\ pc' = [pc EXCEPT ![adIdx] = "recv"]
              /\ pipe' = adIdx
              /\ adIdx' = adIdx + 1
              /\ mainPc' = IF adIdx = NA THEN "targets" ELSE "adapters"
              /\ UNCHANGED << halted, fatal >>
    /\ UNCHANGED << cfg, tgIdx, hold, srcIdx, closed,
                    sent, recvd, written, doneCalls >>

StartAdapter ==
    /\ ~halted
    /\ UNCHANGED auxVars
    /\ mainPc = "adapters"
    /\ IF ~IsKnownAdapterType(cfg.adapters[adIdx].type)
         THEN /\ Fatal(MainId, "unknown-adapter-type", 0)
              /\ UNCHANGED << mainPc, adIdx, pipe, wg, pc, in >>
         ELSE /\ WgAdd
              /\ in' = [in EXCEPT ![adIdx] = pipe]
              /\ pc' = [pc EXCEPT ![adIdx] = "recv"]
              /\ pipe' = adIdx
              /\ adIdx' = adIdx + 1
              /\ mainPc' = IF adIdx = NA THEN "targets" ELSE "adapters"
              /\ UNCHANGED << halted, fatal >>
    /\ UNCHANGED << cfg, tgIdx, hold, srcIdx, closed,
                    sent, recvd, written, doneCalls >>

(***************************************************************************)
(* RunTask, run.go:55-59: BuildTarget for instance i, then                 *)
(* target.Run(&wg, pipe).  The Run of an HttpRequestTarget first requests  *)
(* a token from the authorization server, which ends the process when it   *)
(* fails, and only then adds one to the wait group.                        *)
(***************************************************************************)
RequestsToken(t) == t = "http-request-target"

StartTargetAfterFirstRow ==
    /\ ~halted
    /\ UNCHANGED auxVars
    /\ mainPc = "targets"
    /\ pc[pipe] = "send"
    /\ IF ~IsKnownTargetType(cfg.targetType)
         THEN /\ Fatal(MainId, "unknown-target-type", 0)
              /\ UNCHANGED << mainPc, tgIdx, wg, pc, in >>
         ELSE /\ WgAdd
              /\ in' = [in EXCEPT ![NA + 1 + tgIdx] = pipe]
              /\ pc' = [pc EXCEPT ![NA + 1 + tgIdx] = "recv"]
              /\ tgIdx' = tgIdx + 1
              /\ mainPc' = IF tgIdx + 1 = NumTargets THEN "wait" ELSE "targets"
              /\ UNCHANGED << halted, fatal >>
    /\ UNCHANGED << cfg, adIdx, pipe, hold, srcIdx, closed,
                    sent, recvd, written, doneCalls >>

StartTarget ==
    /\ ~halted
    /\ UNCHANGED auxVars
    /\ mainPc = "targets"
    /\ \E tokenOk \in (IF RequestsToken(cfg.targetType) THEN BOOLEAN ELSE {TRUE}) :
         IF ~IsKnownTargetType(cfg.targetType)
         THEN /\ Fatal(MainId, "unknown-target-type", 0)
              /\ UNCHANGED << mainPc, tgIdx, wg, pc, in >>
         ELSE IF ~tokenOk
         THEN /\ Fatal(MainId, "authz-request", 0)
              /\ UNCHANGED << mainPc, tgIdx, wg, pc, in >>
         ELSE /\ WgAdd
              /\ in' = [in EXCEPT ![NA + 1 + tgIdx] = pipe]
              /\ pc' = [pc EXCEPT ![NA + 1 + tgIdx] = "recv"]
              /\ tgIdx' = tgIdx + 1
              /\ mainPc' = IF tgIdx + 1 = NumTargets THEN "wait" ELSE "targets"
              /\ UNCHANGED << halted, fatal >>
    /\ UNCHANGED << cfg, adIdx, pipe, hold, srcIdx, closed,
                    sent, recvd, written, doneCalls >>

(***************************************************************************)
(* RunTask, run.go:61: wg.Wait() returns when the counter is zero.         *)
(***************************************************************************)
WaitReturnsOnExit ==
    /\ UNCHANGED auxVars
    /\ mainPc = "wait"
    /\ (wg = 0 \/ halted)
    /\ mainPc' = "finished"
    /\ UNCHANGED << cfg, adIdx, tgIdx, pipe, wg, pc, in, hold, srcIdx,
                    closed, halted, fatal, sent, recvd, written, doneCalls >>

Wait ==
    /\ ~halted
    /\ UNCHANGED auxVars
    /\ mainPc = "wait"
    /\ wg = 0
    /\ mainPc' = "finished"
    /\ UNCHANGED << cfg, adIdx, tgIdx, pipe, wg, pc, in, hold, srcIdx,
                    closed, halted, fatal, sent, recvd, written, doneCalls >>

(***************************************************************************)
(* The source's loop: scanner.Scan() and json.Unmarshal give the next row, *)
(* or the loop ends.                                                       *)
(***************************************************************************)
SourceRead ==
    /\ ~halted
    /\ UNCHANGED auxVars
    /\ pc[0] = "read"
    /\ IF srcIdx <= Len(cfg.rows)
         THEN /\ hold' = [hold EXCEPT ![0] = [id |-> srcIdx, name |-> cfg.rows[srcIdx]]]
              /\ srcIdx' = srcIdx + 1
              /\ pc' = [pc EXCEPT ![0] = "send"]
         ELSE /\ pc' = [pc EXCEPT ![0] = "close"]
              /\ UNCHANGED << hold, srcIdx >>
    /\ UNCHANGED << cfg, mainPc, adIdx, tgIdx, pipe, wg, in, closed,
                    halted, fatal, sent, recvd, written, doneCalls >>

(***************************************************************************)
(* out <- row in stage p together with the receive of `for row := range    *)
(* in` in stage q: the channels are unbuffered.                            *)
(***************************************************************************)
HandoffBroadcast(p, q) ==
    /\ ~halted
    /\ UNCHANGED auxVars
    /\ pc[p] = "send"
    /\ pc[q] = "recv"
    /\ in[q] = p
    /\ LET Readers == { r \in Stages : pc[r] = "recv" /\ in[r] = p }
       IN  /\ hold' = [s \in Stages |->
                         IF s \in Readers THEN hold[p]
                         ELSE IF s = p THEN NoRow ELSE hold[s]]
           /\ pc' = [s \in Stages |->
                       IF s \in Readers
                       THEN (IF IsTarget(s) THEN "write" ELSE "proc")
                       ELSE IF s = p THEN (IF p = 0 THEN "read" ELSE "recv")
                       ELSE pc[s]]
           /\ recvd' = [s \in Stages |->
                          IF s \in Readers THEN Append(recvd[s], hold[p])
                          ELSE recvd[s]]
    /\ sent' = [sent EXCEPT ![p] = Append(@, hold[p])]
    /\ UNCHANGED << cfg, mainPc, adIdx, tgIdx, pipe, wg, in, srcIdx,
                    closed, halted, fatal, written, doneCalls >>

HandoffBuffered(p, q) ==
    /\ ~halted
    /\ UNCHANGED auxVars
    /\ pc[p] = "send"
    /\ in[q] = p
    /\ hold' = [hold EXCEPT ![p] = NoRow]
    /\ pc' = [pc EXCEPT ![p] = IF p = 0 THEN "read" ELSE "recv"]
    /\ sent' = [sent EXCEPT ![p] = Append(@, hold[p])]
    /\ UNCHANGED << cfg, mainPc, adIdx, tgIdx, pipe, wg, in, srcIdx,
                    closed, halted, fatal, recvd, written, doneCalls >>

Handoff(p, q) ==
    /\ ~halted
    /\ UNCHANGED auxVars
    /\ pc[p] = "send"
    /\ pc[q] = "recv"
    /\ in[q] = p
    /\ hold' = [hold EXCEPT ![q] = hold[p], ![p] = NoRow]
    /\ pc' = [pc EXCEPT ![q] = IF IsTarget(q) THEN "write" ELSE "proc",
                        ![p] = IF p = 0 THEN "read" ELSE "recv"]
    /\ sent' = [sent EXCEPT ![p] = Append(@, hold[p])]
    /\ recvd' = [recvd EXCEPT ![q] = Append(@, hold[p])]
    /\ UNCHANGED << cfg, mainPc, adIdx, tgIdx, pipe, wg, in, srcIdx,
                    closed, halted, fatal, written, doneCalls >>

(***************************************************************************)
(* `for row := range in` ends when the channel is closed.                  *)
(***************************************************************************)
InputExhaustedEarly(q) == TRUE
InputExhaustedWhenSourceClosed(q) == closed[0]
InputExhausted(q) == closed[in[q]]

RecvClosed(q) ==
    /\ ~halted
    /\ UNCHANGED auxVars
    /\ pc[q] = "recv"
    /\ InputExhausted(q)
    /\ pc' = [pc EXCEPT ![q] = IF IsTarget(q) THEN "exit" ELSE "close"]
    /\ UNCHANGED << cfg, mainPc, adIdx, tgIdx, pipe, wg, in, hold, srcIdx,
                    closed, halted, fatal, sent, recvd, written, doneCalls >>

(***************************************************************************)
(* close(out) after the loop of a source or an adapter.                    *)
(***************************************************************************)
CloseInLoop(s) ==
    /\ ~halted
    /\ UNCHANGED auxVars
    /\ pc[s] = "close"
    /\ closed' = [closed EXCEPT ![s] = TRUE]
    /\ pc' = [pc EXCEPT ![s] = IF s = 0 THEN "read" ELSE "recv"]
    /\ UNCHANGED << cfg, mainPc, adIdx, tgIdx, pipe, wg, in, hold, srcIdx,
                    halted, fatal, sent, recvd, written, doneCalls >>

Close(s) ==
    /\ ~halted
    /\ UNCHANGED auxVars
    /\ pc[s] = "close"
    /\ closed' = [closed EXCEPT ![s] = TRUE]
    /\ pc' = [pc EXCEPT ![s] = "exit"]
    /\ UNCHANGED << cfg, mainPc, adIdx, tgIdx, pipe, wg, in, hold, srcIdx,
                    halted, fatal, sent, recvd, written, doneCalls >>

(***************************************************************************)
(* The goroutine returns: the deferred wg.Done() runs.                     *)
(***************************************************************************)
DoneForgets(s) ==
    /\ ~halted
    /\ UNCHANGED auxVars
    /\ pc[s] = "exit"
    /\ pc' = [pc EXCEPT ![s] = "done"]
    /\ UNCHANGED << cfg, mainPc, adIdx, tgIdx, pipe, wg, in, hold, srcIdx,
                    closed, halted, fatal, sent, recvd, written, doneCalls >>

DoneTwice(s) ==
    /\ ~halted
    /\ UNCHANGED auxVars
    /\ pc[s] = "exit"
    /\ wg' = wg - 2
    /\ doneCalls' = [doneCalls EXCEPT ![s] = @ + 2]
    /\ pc' = [pc EXCEPT ![s] = "done"]
    /\ UNCHANGED << cfg, mainPc, adIdx, tgIdx, pipe, in, hold, srcIdx,
                    closed, halted, fatal, sent, recvd, written >>

Done(s) ==
    /\ ~halted
    /\ UNCHANGED auxVars
    /\ pc[s] = "exit"
    /\ wg' = wg - 1
    /\ doneCalls' = [doneCalls EXCEPT ![s] = @ + 1]
    /\ pc' = [pc EXCEPT ![s] = "done"]
    /\ UNCHANGED << cfg, mainPc, adIdx, tgIdx, pipe, in, hold, srcIdx,
                    closed, halted, fatal, sent, recvd, written >>

(***************************************************************************)
(* The body of a target's loop: the row is marshalled and written; an      *)
(* HttpRequestTarget posts it and ends the process when the request fails. *)
(***************************************************************************)
TargetWrite(t) ==
    /\ ~halted
    /\ UNCHANGED auxVars
    /\ pc[t] = "write"
    /\ \E requestOk \in (IF RequestsToken(cfg.targetType) THEN BOOLEAN ELSE {TRUE}) :
         IF ~requestOk
         THEN /\ Fatal(t, "http-request", hold[t].id)
              /\ UNCHANGED << written, hold, pc >>
         ELSE /\ written' = [written EXCEPT ![t] = Append(@, hold[t])]
              /\ hold' = [hold EXCEPT ![t] = NoRow]
              /\ pc' = [pc EXCEPT ![t] = "recv"]
              /\ UNCHANGED << halted, fatal >>
    /\ UNCHANGED << cfg, mainPc, adIdx, tgIdx, pipe, wg, in, srcIdx,
                    closed, sent, recvd, doneCalls >>

(***************************************************************************)
(* The Go values a field holds besides strings: "i0", "i1" are the int64   *)
(* 0 and 1, "f0", "f1" the float64 0 and 1, "bTrue", "bFalse" the bools.   *)
(* fmt.Sprint gives the string form of a value; nil prints as <nil>.       *)
(***************************************************************************)
Sprint(v) ==
    CASE v = "i1" -> "1"
      [] v = "f1" -> "1"
      [] v = "i0" -> "0"
      [] v = "f0" -> "0"
      [] v = "bTrue" -> "true"
      [] v = "bFalse" -> "false"
      [] v = NULL -> "<nil>"
      [] OTHER -> v

(***************************************************************************)
(* strings.ToUpper, strings.ToLower and titleCase on the model's strings.  *)
(* titleCase indexes the first rune of its argument: on the empty string   *)
(* the index is out of range and the goroutine panics.                     *)
(***************************************************************************)
ToUpper(s) ==
    CASE s = "a" -> "A"
      [] s \in {"aB", "ab", "Ab"} -> "AB"
      [] s = "yes" -> "YES"
      [] s = "true" -> "TRUE"
      [] s = "false" -> "FALSE"
      [] s = "m" -> "M"
      [] s = "E:a" -> "E:A"
      [] OTHER -> s

ToLower(s) ==
    CASE s = "A" -> "a"
      [] s \in {"aB", "AB", "Ab"} -> "ab"
      [] s = "YES" -> "yes"
      [] s = "TRUE" -> "true"
      [] s = "FALSE" -> "false"
      [] s = "M" -> "m"
      [] s = "E:a" -> "e:a"
      [] OTHER -> s

PANIC == "panic"

titleCase(s) ==
    LET tmp == ToLower(s)
    IN  CASE tmp = "" -> PANIC
          [] tmp = "a" -> "A"
          [] tmp = "ab" -> "Ab"
          [] tmp = "yes" -> "Yes"
          [] tmp = "true" -> "True"
          [] tmp = "false" -> "False"
          [] tmp = "m" -> "M"
          [] tmp = "e:a" -> "E:a"
          [] OTHER -> tmp

(***************************************************************************)
(* strconv.ParseBool, ParseInt and ParseFloat, and time.Parse followed by  *)
(* Format: whether the string parses, and the value returned (the zero     *)
(* value when it does not).  "2023-01-02" is a date in the adapter's input *)
(* layout and "02/01/2023" the same date in its output layout; the zero    *)
(* time prints as "01/01/0001".                                            *)
(***************************************************************************)
ParseBoolOk(s) ==
    s \in {"1", "t", "T", "TRUE", "true", "True",
           "0", "f", "F", "FALSE", "false", "False"}
ParseBool(s) ==
    IF s \in {"1", "t", "T", "TRUE", "true", "True"} THEN "bTrue" ELSE "bFalse"
ParseIntOk(s) == s = "1"
ParseInt(s) == IF ParseIntOk(s) THEN "i1" ELSE "i0"
ParseFloatOk(s) == s = "1"
ParseFloat(s) == IF ParseFloatOk(s) THEN "f1" ELSE "f0"
TimeParseOk(s) == s = "2023-01-02"
TimeParse(s) == IF TimeParseOk(s) THEN "t:2023-01-02" ELSE "t:zero"
Format(t) == IF t = "t:2023-01-02" THEN "02/01/2023" ELSE "01/01/0001"

(***************************************************************************)
(* A row is a map from field names to values.  row[field] of a missing key *)
(* gives nil and ok = false.                                               *)
(***************************************************************************)
Has(row, field) == field \in DOMAIN row /\ row[field] # ABSENT
Get(row, field) == IF Has(row, field) THEN row[field] ELSE NULL
FieldSet(fields) == { fields[i] : i \in DOMAIN fields }
ListedKeys(fields, row) == { f \in FieldSet(fields) : Has(row, f) }
NonNull(fields, row) == { f \in FieldSet(fields) : Get(row, f) # NULL }

(***************************************************************************)
(* The switch of CastToDatatypeAdapter.Run on one field's value: the value *)
(* assigned to the field and the error tested after the switch.  The       *)
(* datetime case drops the error of time.Parse.                            *)
(***************************************************************************)
CastField(dataType, raw) ==
    LET value == Sprint(raw)
    IN  CASE dataType = "boolean" ->
               [err |-> IF ParseBoolOk(ToLower(value)) THEN "none" ELSE "malformed-value",
                value |-> ParseBool(ToLower(value))]
          [] dataType = "int64" ->
               [err |-> IF ParseIntOk(value) THEN "none" ELSE "malformed-value",
                value |-> ParseInt(value)]
          [] dataType = "float64" ->
               [err |-> IF ParseFloatOk(value) THEN "none" ELSE "malformed-value",
                value |-> ParseFloat(value)]
          [] dataType = "datetime" ->
               [err |-> "none", value |-> Format(TimeParse(value))]
          [] OTHER -> [err |-> "invalid-datatype", value |-> raw]

(***************************************************************************)
(* What the body of an adapter's loop does with a row: the row to send,    *)
(* or the cause of the log.Fatalf (or of the panic) that ends the process  *)
(* at the first field that fails.                                          *)
(***************************************************************************)
CastToDatatype(fields, dataType, row) ==
    LET todo == NonNull(fields, row)
        bad == { f \in todo : CastField(dataType, row[f]).err # "none" }
    IN  IF bad # {}
        THEN [err |-> CastField(dataType, row[CHOOSE f \in bad : TRUE]).err,
              row |-> row]
        ELSE [err |-> "none",
              row |-> [f \in DOMAIN row |->
                         IF f \in todo THEN CastField(dataType, row[f]).value
                         ELSE row[f]]]

CaseField(handling, raw) ==
    LET value == Sprint(raw)
    IN  CASE handling = "upper" -> [err |-> "none", value |-> ToUpper(value)]
          [] handling = "lower" -> [err |-> "none", value |-> ToLower(value)]
          [] handling = "title" ->
               IF titleCase(value) = PANIC
               THEN [err |-> PANIC, value |-> raw]
               ELSE [err |-> "none", value |-> titleCase(value)]
          [] OTHER -> [err |-> "invalid-case-conversion", value |-> raw]

CaseConversion(fields, handling, row) ==
    LET todo == NonNull(fields, row)
        bad == { f \in todo : CaseField(handling, row[f]).err # "none" }
    IN  IF bad # {}
        THEN [err |-> CaseField(handling, row[CHOOSE f \in bad : TRUE]).err,
              row |-> row]
        ELSE [err |-> "none",
              row |-> [f \in DOMAIN row |->
                         IF f \in todo THEN CaseField(handling, row[f]).value
                         ELSE row[f]]]

(***************************************************************************)
(* NullHandlingAdapter.Run ranges over all the fields of the row, whatever *)
(* the configuration lists.  The "id" of a row is the identity of the map, *)
(* not one of its keys.                                                    *)
(***************************************************************************)
NullFields(row) == { f \in DOMAIN row \ {"id"} : row[f] = NULL }

NullHandlingIgnores(handling, row) ==
    IF NullFields(row) = {} \/ handling # "remove"
    THEN [err |-> "none", row |-> row]
    ELSE [err |-> "none",
          row |-> [f \in DOMAIN row |->
                     IF f \in NullFields(row) THEN ABSENT ELSE row[f]]]

NullHandling(handling, row) ==
    IF NullFields(row) = {}
    THEN [err |-> "none", row |-> row]
    ELSE IF handling = "remove"
    THEN [err |-> "none",
          row |-> [f \in DOMAIN row |->
                     IF f \in NullFields(row) THEN ABSENT ELSE row[f]]]
    ELSE [err |-> "invalid-null-handling", row |-> row]

(***************************************************************************)
(* The pipeline's rows have the one field "name", which its adapters list. *)
(***************************************************************************)
Transform(ac, row) ==
    IF ac.type = "cast-to-datatype-adapter" THEN CastToDatatype(<<"name">>, ac.arg, row)
    ELSE IF ac.type = "case-conversion-adapter" THEN CaseConversion(<<"name">>, ac.arg, row)
    ELSE IF ac.type = "null-handling-adapter" THEN NullHandling(ac.arg, row)
    ELSE [err |-> "none", row |-> row]

AdapterProcessNoHalt(s) ==
    /\ ~halted
    /\ UNCHANGED auxVars
    /\ pc[s] = "proc"
    /\ LET r == Transform(cfg.adapters[s], hold[s])
       IN  /\ IF r.err # "none"
                THEN FatalLogOnly(s, r.err, hold[s].id)
                ELSE UNCHANGED << halted, fatal >>
           /\ hold' = [hold EXCEPT ![s] = r.row]
           /\ pc' = [pc EXCEPT ![s] = "send"]
    /\ UNCHANGED << cfg, mainPc, adIdx, tgIdx, pipe, wg, in, srcIdx,
                    closed, sent, recvd, written, doneCalls >>

AdapterProcessReplay(s) ==
    /\ ~halted
    /\ UNCHANGED auxVars
    /\ pc[s] = "proc"
    /\ LET r == Transform(cfg.adapters[s], recvd[s][1])
       IN  IF r.err # "none"
           THEN /\ Fatal(s, r.err, hold[s].id)
                /\ UNCHANGED << hold, pc >>
           ELSE /\ hold' = [hold EXCEPT ![s] = r.row]
                /\ pc' = [pc EXCEPT ![s] = "send"]
                /\ UNCHANGED << halted, fatal >>
    /\ UNCHANGED << cfg, mainPc, adIdx, tgIdx, pipe, wg, in, srcIdx,
                    closed, sent, recvd, written, doneCalls >>

AdapterProcess(s) ==
    /\ ~halted
    /\ UNCHANGED auxVars
    /\ pc[s] = "proc"
    /\ LET r == Transform(cfg.adapters[s], hold[s])
       IN  IF r.err # "none"
           THEN /\ Fatal(s, r.err, hold[s].id)
                /\ UNCHANGED << hold, pc >>
           ELSE /\ hold' = [hold EXCEPT ![s] = r.row]
                /\ pc' = [pc EXCEPT ![s] = "send"]
                /\ UNCHANGED << halted, fatal >>
    /\ UNCHANGED << cfg, mainPc, adIdx, tgIdx, pipe, wg, in, srcIdx,
                    closed, sent, recvd, written, doneCalls >>

Next ==
    \/ StartSource
    \/ StartAdapter
    \/ StartTarget
    \/ Wait
    \/ SourceRead
    \/ \E p \in Stages : \E q \in Stages : Handoff(p, q)
    \/ \E q \in Stages : RecvClosed(q)
    \/ \E s \in Stages : Close(s)
    \/ \E s \in Stages : Done(s)
    \/ \E t \in Stages : TargetWrite(t)
    \/ \E s \in Stages : AdapterProcess(s)

Spec == Init /\ [][Next]_vars

(***************************************************************************)
(* The Go scheduler runs every goroutine that can take a step.             *)
(***************************************************************************)
FairSpec == Spec /\ WF_vars(Next)

TypeOK ==
    /\ wg \in 0..(MaxStage + 1)
    /\ mainPc \in {"source", "adapters", "targets", "wait", "finished"}
    /\ halted \in BOOLEAN

(***************************************************************************)
(* Helpers of the properties.                                              *)
(***************************************************************************)
Ids(seq) == [i \in DOMAIN seq |-> seq[i].id]
IdSet(seq) == { seq[i].id : i \in DOMAIN seq }
Count(r, seq) == Cardinality({ i \in DOMAIN seq : seq[i] = r })
Started(s) == pc[s] # "unstarted"
TaskStages == {0} \cup Adapters \cup Targets
RowIds == 1..Len(cfg.rows)
Increasing(seq) ==
    \A i \in DOMAIN seq : \A j \in DOMAIN seq : i < j => seq[i].id < seq[j].id

RECURSIVE CountIn(_, _, _)
CountIn(r, S, f) ==
    IF S = {} THEN 0
    ELSE LET t == CHOOSE x \in S : TRUE
         IN  Count(r, f[t]) + CountIn(r, S \ {t}, f)

SourceClosed == closed[0]
AdapterOutputsClosed == \A s \in Adapters : closed[s]
Finished == mainPc = "finished"

(***************************************************************************)
(* C1 (as stated): once the source has closed its output stream, the       *)
(* output stream of every adapter of the task is eventually closed, and    *)
(* an adapter's output is closed only when its input is closed and the     *)
(* adapter has forwarded exactly the records the source emitted.           *)
(***************************************************************************)
ClosedOnlyAfterForwarding ==
    \A s \in Adapters :
        closed[s] =>
            /\ closed[in[s]]
            /\ hold[s] = NoRow
            /\ Ids(recvd[s]) = Ids(sent[in[s]])
            /\ Ids(sent[s]) = Ids(recvd[s])
            /\ Ids(sent[s]) = Ids(sent[0])
            /\ IdSet(sent[0]) = RowIds

AllConsumed ==
    \A k \in RowIds : \E t \in Targets : k \in IdSet(written[t])

C2_CleanTermination ==
    /\ <>(halted \/ Finished)
    /\ [](Finished => AllConsumed)

C2_Witness ==
    /\ Finished
    /\ NA >= 2
    /\ Len(cfg.rows) >= 2

(***************************************************************************)
(* C3: every target receives records in the relative order in which the    *)
(* source emitted them, the source emitting the lines of its input in      *)
(* order.                                                                  *)
(***************************************************************************)
C3_Ordering ==
    /\ Increasing(sent[0])
    /\ \A t \in Targets : Increasing(recvd[t])
    /\ \A t \in Targets : Increasing(written[t])

C3_Witness ==
    /\ NA >= 1
    /\ \E t \in Targets : Len(recvd[t]) >= 2

(***************************************************************************)
(* C4: every record sent on the final stream is received by exactly one    *)
(* target instance: at any time the records received by the targets are,   *)
(* as a multiset, the records sent on the final stream, none twice; once   *)
(* the task has finished these are all the records of the source.          *)
(***************************************************************************)
FinalStream == NA

C4_CompetingSinks ==
    /\ \A t \in Targets : Started(t) => in[t] = FinalStream
    /\ \A r \in UNION { { f[i] : i \in DOMAIN f } :
                        f \in { sent[FinalStream] } \cup { recvd[t] : t \in Targets } } :
            /\ Count(r, sent[FinalStream]) = 1
            /\ CountIn(r, Targets, recvd) = 1
    /\ Finished => IdSet(sent[FinalStream]) = RowIds

C4_Witness ==
    /\ Finished
    /\ \A t \in Targets : Len(recvd[t]) >= 1

(***************************************************************************)
(* C5: wg.Wait() of RunTask has returned only if every stage of the task   *)
(* was started and its goroutine has returned, holding no record.          *)
(***************************************************************************)
C5_WaitNotEarly ==
    Finished =>
        \A s \in TaskStages : pc[s] = "done" /\ hold[s] = NoRow

C5_Witness ==
    /\ Finished
    /\ NA >= 1
    /\ Len(cfg.rows) >= 1

FatalInAdapter == fatal.who \in Adapters

RECURSIVE SumCalls(_)
SumCalls(S) ==
    IF S = {} THEN 0
    ELSE LET t == CHOOSE x \in S : TRUE
         IN  doneCalls[t] + SumCalls(S \ {t})

ReceivedBefore(k, a, bad) ==
    \E i \in DOMAIN recvd[a] : \E j \in DOMAIN recvd[a] :
        /\ recvd[a][i].id = k
        /\ recvd[a][j].id = bad
        /\ i < j

C7_FatalContainment ==
    FatalInAdapter =>
        \A t \in Targets : \A k \in IdSet(recvd[t]) :
            ReceivedBefore(k, fatal.who, fatal.row)

C7_Witness ==
    /\ halted
    /\ FatalInAdapter
    /\ fatal.cause = "malformed-value"
    /\ fatal.row >= 2
    /\ \E t \in Targets : Len(recvd[t]) >= 1

HasUnknownAdapter ==
    \E i \in Adapters : cfg.adapters[i].type \notin AdapterTypes

ConfigErrors ==
    { "unknown-task", "unknown-source-type", "unknown-adapter-type",
      "unknown-target-type", "invalid-datatype", "invalid-case-conversion",
      "invalid-null-handling" }

NoStreamWork ==
    \A s \in Stages : sent[s] = << >> /\ recvd[s] = << >>

C10_ConfigErrorsBeforeStreaming ==
    (halted /\ fatal.cause \in ConfigErrors) =>
        /\ fatal.who = MainId
        /\ NoStreamWork

(***************************************************************************)
(* C12: RunTask starts the source, then the adapters in the resolved       *)
(* order, then the target instances; the input stream of every adapter is  *)
(* the output stream of the stage started right before it, and every       *)
(* target instance is started on the output stream of the last adapter,    *)
(* or of the source when the task has no adapter.                          *)
(***************************************************************************)
C12_StageWiring ==
    /\ \A s \in Stages : Started(s) => \A r \in 0..(s - 1) : Started(r)
    /\ \A s \in Stages : Started(s) => s \in TaskStages
    /\ \A s \in Adapters : Started(s) => in[s] = s - 1
    /\ \A t \in Targets : Started(t) => in[t] = NA
    /\ pipe = (IF ~Started(0) THEN NoChan
               ELSE IF mainPc = "adapters" THEN adIdx - 1 ELSE NA)

C12_Witness ==
    /\ NA >= 2
    /\ \A s \in TaskStages : Started(s)
    /\ Len(recvd[2]) >= 1

StreamConsumers(c) == { q \in Stages : in[q] = c }
LoopEnded(q) ==
    \/ IsAdapter(q) /\ pc[q] \in {"close", "exit", "done"}
    \/ IsTarget(q) /\ pc[q] \in {"exit", "done"}
RunningStages == { s \in Stages : Started(s) /\ pc[s] # "done" }

(***************************************************************************)
(* C16: every stream is unbuffered: at any time the records sent on a      *)
(* stream are the records its consumers have received, none is held by     *)
(* the stream, and a stage leaves its send only in a step in which a       *)
(* consumer of its stream, ready to receive, receives that record.         *)
(***************************************************************************)
NothingInFlight ==
    \A c \in Chans : \A i \in DOMAIN sent[c] :
        Count(sent[c][i], sent[c]) = CountIn(sent[c][i], StreamConsumers(c), recvd)

SendCompletesWithReceive ==
    \A p \in Stages :
        (pc[p] = "send" /\ pc'[p] # "send") =>
            \E q \in Stages :
                /\ in[q] = p
                /\ pc[q] = "recv"
                /\ recvd'[q] = Append(recvd[q], hold[p])
                /\ sent'[p] = Append(sent[p], hold[p])

C16_UnbufferedHandoff ==
    /\ []NothingInFlight
    /\ [][SendCompletesWithReceive]_vars

C16_Witness ==
    /\ NA >= 1
    /\ pc[0] = "send"
    /\ pc[1] = "send"
    /\ Len(sent[0]) >= 1
    /\ \A t \in Targets : ~Started(t)

(***************************************************************************)
(* C17: the read loop of a consumer has ended only if its input stream is  *)
(* closed and every record sent on that stream has been received: by the   *)
(* consumer itself, in the order sent, when it is an adapter, and by one   *)
(* of the target instances on the final stream.                            *)
(***************************************************************************)
C17_NoDropOnClose ==
    \A q \in Adapters \cup Targets :
        LoopEnded(q) =>
            /\ closed[in[q]]
            /\ IsAdapter(q) => recvd[q] = sent[in[q]]
            /\ \A i \in DOMAIN sent[in[q]] :
                   CountIn(sent[in[q]][i], StreamConsumers(in[q]), recvd) = 1

C17_Witness ==
    /\ NA >= 1
    /\ LoopEnded(1)
    /\ Len(recvd[1]) >= 2
    /\ \A t \in Targets : LoopEnded(t) /\ Len(recvd[t]) >= 1

OwnerIsPastClose ==
    \A c \in Chans : closed[c] => pc[c] \in {"exit", "done"}

SingleConsumer ==
    /\ \A c \in Chans : c < NA => Cardinality(StreamConsumers(c)) <= 1
    /\ mainPc \in {"targets", "wait", "finished"} =>
           \A c \in Chans : c < NA => StreamConsumers(c) = {c + 1}
    /\ StreamConsumers(NA) \subseteq Targets

OnlyOwnerSendsAndCloses ==
    \A c \in Chans :
        /\ closed[c] => closed'[c] /\ sent'[c] = sent[c]
        /\ sent'[c] # sent[c] => pc[c] = "send" /\ pc'[c] # "send"
        /\ closed'[c] # closed[c] => pc[c] = "close" /\ pc'[c] = "exit"

C19_StreamOwnership ==
    /\ [](OwnerIsPastClose /\ SingleConsumer)
    /\ [][OnlyOwnerSendsAndCloses]_vars

C19_Witness ==
    /\ NA = 2
    /\ closed[0] /\ closed[1] /\ closed[2]
    /\ Len(sent[1]) >= 2
    /\ \A t \in Targets : Started(t)

(***************************************************************************)
(* C15 (as stated): between the start of the source and the start of the   *)
(* last target instance the counter of the wait group is never zero.       *)
(***************************************************************************)
BetweenStarts == mainPc \in {"adapters", "targets"} /\ ~halted

C15_RegistrationBeforeReturn_AsStated ==
    BetweenStarts => wg > 0

(***************************************************************************)
(* C15 (amended): every Run has added one to the wait group when it        *)
(* returns, before its goroutine can call wg.Done(), and returns whatever  *)
(* the state of the streams, so RunTask is never blocked between stage     *)
(* starts and every stage is registered when RunTask is at wg.Wait(); the  *)
(* counter is zero between two stage starts only when every stage started  *)
(* so far has already returned.                                            *)
(***************************************************************************)
RegisteredWhileRunning ==
    /\ wg >= 0
    /\ \A s \in Stages : (Started(s) /\ pc[s] # "done") => wg >= 1
    /\ \A s \in Stages : doneCalls[s] > 0 => Started(s)

NonBlockingStart ==
    ~halted =>
        /\ mainPc = "source" => ENABLED StartSource
        /\ mainPc = "adapters" => ENABLED StartAdapter
        /\ mainPc = "targets" => ENABLED StartTarget

C15_RegistrationBeforeReturn ==
    /\ RegisteredWhileRunning
    /\ NonBlockingStart
    /\ mainPc \in {"wait", "finished"} => \A s \in TaskStages : Started(s)
    /\ (BetweenStarts /\ wg = 0) => \A s \in Stages : Started(s) => pc[s] = "done"

C15_Witness ==
    /\ BetweenStarts
    /\ wg = 0
    /\ tgIdx = 1
    /\ NA >= 1
    /\ Len(cfg.rows) >= 1

(***************************************************************************)
(* The configuration layer and the registries.  A task of core.Config has  *)
(* a source, a map of adapters keyed by name, each with a type tag and an  *)
(* order, and a target.  The keys of the adapters map are modelled by the  *)
(* numbers 1..MaxNames, which compare as the declared names do.            *)
(***************************************************************************)
MaxNames == 2
MaxOrder == 2

TaskNames == {"etl", "nightly"}
AdapterKeys == 1..MaxNames

SourceTags == SourceTypes \cup {"jsonl-file-target", "csv-file-source"}
AdapterTags == AdapterTypes \cup {"jsonl-file-source", "xml-adapter"}
TargetTags == {"jsonl-file", "jsonl-file-target", "jsonl-file-source", "csv-file"}

AdapterMaps(Types, Keys, Orders) ==
    UNION { [K -> [type : Types, order : Orders]] : K \in SUBSET Keys }

OrderingTasks ==
    [ source : {"jsonl-file-source"},
      adapters : AdapterMaps({"case-conversion-adapter"}, AdapterKeys, 1..MaxOrder),
      target : {"jsonl-file"} ]

DispatchTasks ==
    [ source : SourceTags,
      adapters : AdapterMaps(AdapterTags, {1}, {1}),
      target : {"jsonl-file"} ]

Confs ==
    { [n \in {"etl"} |-> t] : t \in OrderingTasks \cup DispatchTasks } \cup { << >> }

PipelineIdle ==
    /\ cfg = [taskKnown |-> TRUE, sourceType |-> "jsonl-file-source",
              targetType |-> "jsonl-file-target", adapters |-> << >>,
              rows |-> << >>]
    /\ mainPc = "idle"
    /\ adIdx = 1
    /\ tgIdx = 0
    /\ pipe = NoChan
    /\ wg = 0
    /\ pc = [s \in Stages |-> "unstarted"]
    /\ in = [s \in Stages |-> NoChan]
    /\ hold = [s \in Stages |-> NoRow]
    /\ srcIdx = 1
    /\ closed = [c \in Chans |-> FALSE]
    /\ halted = FALSE
    /\ fatal = NoFatal
    /\ sent = [s \in Stages |-> << >>]
    /\ recvd = [s \in Stages |-> << >>]
    /\ written = [s \in Stages |-> << >>]
    /\ doneCalls = [s \in Stages |-> 0]

ResolveInit ==
    /\ PipelineIdle
    /\ StageIdle
    /\ ExtraIdle
    /\ conf \in Confs
    /\ taskName \in TaskNames
    /\ rpc = "source"
    /\ names = << >>
    /\ nameIdx = 1
    /\ built = << >>
    /\ rfatal = "none"
    /\ call = NoCall
    /\ namesSeen = {}

(***************************************************************************)
(* The lookups of core.Config.  A lookup that returns an error has err.    *)
(***************************************************************************)
NotFound == [err |-> TRUE, type |-> "none", order |-> 0]

GetSourceConfig(name) ==
    IF name \notin DOMAIN conf THEN NotFound
    ELSE [err |-> FALSE, type |-> conf[name].source, order |-> 0]

GetAdapterConfig(name, key) ==
    IF name \notin DOMAIN conf THEN NotFound
    ELSE IF key \notin DOMAIN conf[name].adapters THEN NotFound
    ELSE [err |-> FALSE, type |-> conf[name].adapters[key].type,
          order |-> conf[name].adapters[key].order]

GetTargetConfig(name) ==
    IF name \notin DOMAIN conf THEN NotFound
    ELSE [err |-> FALSE, type |-> conf[name].target, order |-> 0]

(***************************************************************************)
(* GetAdapterNames: the keys of the map are appended in the order the      *)
(* range over the map yields them, which Go leaves unspecified, and        *)
(* sort.Slice then sorts them with a less function that compares the       *)
(* orders alone; on slices this short sort.Slice is an insertion sort.     *)
(***************************************************************************)
Perms(S) ==
    { p \in [1..Cardinality(S) -> S] :
        \A i \in DOMAIN p : \A j \in DOMAIN p : p[i] = p[j] => i = j }

Swap(seq, i, j) == [seq EXCEPT ![i] = seq[j], ![j] = seq[i]]

RECURSIVE InsertDown(_, _, _)
InsertDown(seq, j, ord) ==
    IF j > 1 /\ ord[seq[j]].order < ord[seq[j - 1]].order
    THEN InsertDown(Swap(seq, j, j - 1), j - 1, ord)
    ELSE seq

RECURSIVE InsertionSort(_, _, _)
InsertionSort(seq, i, ord) ==
    IF i > Len(seq) THEN seq
    ELSE InsertionSort(InsertDown(seq, i, ord), i + 1, ord)

SortSlice(seq, ord) == InsertionSort(seq, 2, ord)

GetAdapterNames(name) ==
    IF name \notin DOMAIN conf THEN { << >> }
    ELSE { SortSlice(p, conf[name].adapters) : p \in Perms(DOMAIN conf[name].adapters) }

(***************************************************************************)
(* The builders: a lookup, then the chain of Isa... tests, then            *)
(* log.Fatalf.  The result is the type of the instance returned, or the    *)
(* cause of the log.Fatalf.                                                *)
(***************************************************************************)
IsaDatabaseQuerySource(t) == t = "database-query-source"
IsaJSONLFileSource(t) == t = "jsonl-file-source"
IsaCaseConversionAdapter(t) == t = "case-conversion-adapter"
IsaConstantMappingAdapter(t) == t = "constant-mapping-adapter"
IsaCastToDatatypeAdapter(t) == t = "cast-to-datatype-adapter"
IsaCryptoAESCBCZeroAdapter(t) == t = "crypto-aescbczero-adapter"
IsaNamesRandomizerAdapter(t) == t = "names-randomizer-adapter"
IsaNullHandlingAdapter(t) == t = "null-handling-adapter"

Instance(t) == [fatal |-> "none", inst |-> t]
Aborted(cause) == [fatal |-> cause, inst |-> "none"]
Nil == [fatal |-> "none", inst |-> "nil"]

BuildSource(name) ==
    LET sourceConfig == GetSourceConfig(name)
    IN  IF sourceConfig.err THEN Aborted("task-not-found")
        ELSE IF IsaDatabaseQuerySource(sourceConfig.type)
        THEN Instance("DatabaseQuerySource")
        ELSE IF IsaJSONLFileSource(sourceConfig.type)
        THEN Instance("JSONLFileSource")
        ELSE Aborted("unknown-source-type")

BuildAdapterReturnsNil(name, key) ==
    LET adapterConfig == GetAdapterConfig(name, key)
    IN  IF adapterConfig.err THEN Aborted("adapter-not-found")
        ELSE IF IsaCaseConversionAdapter(adapterConfig.type)
        THEN Instance("CaseConversionAdapter")
        ELSE IF IsaConstantMappingAdapter(adapterConfig.type)
        THEN Instance("ConstantMappingAdapter")
        ELSE IF IsaCastToDatatypeAdapter(adapterConfig.type)
        THEN Instance("CastToDatatypeAdapter")
        ELSE IF IsaCryptoAESCBCZeroAdapter(adapterConfig.type)
        THEN Instance("CryptoAESCBCZeroAdapter")
        ELSE IF IsaNamesRandomizerAdapter(adapterConfig.type)
        THEN Instance("NamesRandomizerAdapter")
        ELSE IF IsaNullHandlingAdapter(adapterConfig.type)
        THEN Instance("NullHandlingAdapter")
        ELSE Nil

BuildAdapter(name, key) ==
    LET adapterConfig == GetAdapterConfig(name, key)
    IN  IF adapterConfig.err THEN Aborted("adapter-not-found")
        ELSE IF IsaCaseConversionAdapter(adapterConfig.type)
        THEN Instance("CaseConversionAdapter")
        ELSE IF IsaConstantMappingAdapter(adapterConfig.type)
        THEN Instance("ConstantMappingAdapter")
        ELSE IF IsaCastToDatatypeAdapter(adapterConfig.type)
        THEN Instance("CastToDatatypeAdapter")
        ELSE IF IsaCryptoAESCBCZeroAdapter(adapterConfig.type)
        THEN Instance("CryptoAESCBCZeroAdapter")
        ELSE IF IsaNamesRandomizerAdapter(adapterConfig.type)
        THEN Instance("NamesRandomizerAdapter")
        ELSE IF IsaNullHandlingAdapter(adapterConfig.type)
        THEN Instance("NullHandlingAdapter")
        ELSE Aborted("unknown-adapter-type")

BuildTarget(tgcfgType) ==
    IF tgcfgType = "jsonl-file" THEN Instance("JSONLinesTarget")
    ELSE Aborted("unknown-target-type")

(***************************************************************************)
(* RunTask, run.go:46: BuildSource.                                        *)
(***************************************************************************)
RunBuildSource ==
    /\ rfatal = "none"
    /\ rpc = "source"
    /\ LET b == BuildSource(taskName)
       IN  IF b.fatal # "none"
           THEN /\ rfatal' = b.fatal
                /\ UNCHANGED << rpc, built >>
           ELSE /\ built' = Append(built, [role |-> "source", key |-> 0,
                                           tag |-> conf[taskName].source,
                                           inst |-> b.inst])
                /\ rpc' = "names"
                /\ UNCHANGED rfatal
    /\ UNCHANGED << conf, taskName, names, nameIdx, call, namesSeen >>
    /\ UNCHANGED << pipeVars, stageVars, extraVars >>

(***************************************************************************)
(* RunTask, run.go:49: the range expression cfg.GetAdapterNames(taskName)  *)
(* is evaluated once.                                                      *)
(***************************************************************************)
RunGetAdapterNames ==
    /\ rfatal = "none"
    /\ rpc = "names"
    /\ \E r \in GetAdapterNames(taskName) :
          /\ names' = r
          /\ namesSeen' = namesSeen \cup {r}
          /\ rpc' = IF r = << >> THEN "targets" ELSE "adapters"
    /\ UNCHANGED << conf, taskName, nameIdx, built, rfatal, call >>
    /\ UNCHANGED << pipeVars, stageVars, extraVars >>

(***************************************************************************)
(* RunTask, run.go:50-52: BuildAdapter for the next name of the slice.     *)
(***************************************************************************)
RunBuildAdapter ==
    /\ rfatal = "none"
    /\ rpc = "adapters"
    /\ LET b == BuildAdapter(taskName, names[nameIdx])
       IN  IF b.fatal # "none"
           THEN /\ rfatal' = b.fatal
                /\ UNCHANGED << rpc, built, nameIdx >>
           ELSE /\ built' = Append(built,
                       [role |-> "adapter", key |-> names[nameIdx],
                        tag |-> conf[taskName].adapters[names[nameIdx]].type,
                        inst |-> b.inst])
                /\ nameIdx' = nameIdx + 1
                /\ rpc' = IF nameIdx = Len(names) THEN "targets" ELSE "adapters"
                /\ UNCHANGED rfatal
    /\ UNCHANGED << conf, taskName, names, call, namesSeen >>
    /\ UNCHANGED << pipeVars, stageVars, extraVars >>

(***************************************************************************)
(* A call of one of the lookups of core.Config, by a builder or by the     *)
(* constructor of a stage, with any task name and adapter key.             *)
(***************************************************************************)
Lookups == {"GetSourceConfig", "GetAdapterNames", "GetAdapterConfig",
            "GetTargetConfig"}

Lookup(fn, name, key) ==
    /\ rfatal = "none"
    /\ fn \in Lookups
    /\ IF fn = "GetAdapterNames"
         THEN \E r \in GetAdapterNames(name) :
                 /\ call' = [fn |-> fn, task |-> name, key |-> 0, err |-> FALSE,
                             names |-> r, inst |-> "none"]
                 /\ namesSeen' = IF name = taskName THEN namesSeen \cup {r}
                                 ELSE namesSeen
         ELSE /\ call' = [fn |-> fn, task |-> name,
                          key |-> IF fn = "GetAdapterConfig" THEN key ELSE 0,
                          err |-> IF fn = "GetSourceConfig"
                                  THEN GetSourceConfig(name).err
                                  ELSE IF fn = "GetTargetConfig"
                                  THEN GetTargetConfig(name).err
                                  ELSE GetAdapterConfig(name, key).err,
                          names |-> << >>, inst |-> "none"]
              /\ UNCHANGED namesSeen
    /\ UNCHANGED << conf, taskName, rpc, names, nameIdx, built, rfatal >>
    /\ UNCHANGED << pipeVars, stageVars, extraVars >>

(***************************************************************************)
(* A call of BuildTarget with the target configuration of a task.          *)
(***************************************************************************)
CallBuildTarget(tgcfgType) ==
    /\ rfatal = "none"
    /\ LET b == BuildTarget(tgcfgType)
       IN  /\ call' = [fn |-> "BuildTarget", task |-> tgcfgType, key |-> 0,
                       err |-> FALSE, names |-> << >>, inst |-> b.inst]
           /\ rfatal' = b.fatal
    /\ UNCHANGED << conf, taskName, rpc, names, nameIdx, built, namesSeen >>
    /\ UNCHANGED << pipeVars, stageVars, extraVars >>

ResolveNext ==
    \/ RunBuildSource
    \/ RunGetAdapterNames
    \/ RunBuildAdapter
    \/ \E fn \in Lookups : \E name \in TaskNames : \E key \in 1..(MaxNames + 1) :
          Lookup(fn, name, key)
    \/ \E t \in TargetTags : CallBuildTarget(t)

ResolveSpec == ResolveInit /\ [][ResolveNext]_vars

(***************************************************************************)
(* C11: every slice GetAdapterNames returns for the task holds each        *)
(* configured adapter name once, sorted by order and, among equal orders,  *)
(* by name; all calls on the configuration return the same slice; RunTask  *)
(* builds the adapters in the order of that slice.                         *)
(***************************************************************************)
OrderOf(k) == conf[taskName].adapters[k].order

SortedByOrderThenName(seq) ==
    \A i \in DOMAIN seq : \A j \in DOMAIN seq :
        i < j => \/ OrderOf(seq[i]) < OrderOf(seq[j])
                 \/ OrderOf(seq[i]) = OrderOf(seq[j]) /\ seq[i] < seq[j]

EachNameOnce(seq) ==
    /\ { seq[i] : i \in DOMAIN seq } = DOMAIN conf[taskName].adapters
    /\ Len(seq) = Cardinality(DOMAIN conf[taskName].adapters)

C11_DeterministicOrder ==
    taskName \in DOMAIN conf =>
        /\ \A r \in namesSeen : EachNameOnce(r) /\ SortedByOrderThenName(r)
        /\ Cardinality(namesSeen) <= 1
        /\ \A i \in DOMAIN built :
               built[i].role = "adapter" => built[i].key = names[i - 1]

(***************************************************************************)
(* C13: a builder returns an instance exactly for the tags of its          *)
(* registry, the instance being of the stage type the tag names, and       *)
(* aborts the task on any other tag; no builder returns nil.               *)
(***************************************************************************)
StageTypeOf(t) ==
    CASE t = "database-query-source" -> "DatabaseQuerySource"
      [] t = "jsonl-file-source" -> "JSONLFileSource"
      [] t = "case-conversion-adapter" -> "CaseConversionAdapter"
      [] t = "constant-mapping-adapter" -> "ConstantMappingAdapter"
      [] t = "cast-to-datatype-adapter" -> "CastToDatatypeAdapter"
      [] t = "crypto-aescbczero-adapter" -> "CryptoAESCBCZeroAdapter"
      [] t = "names-randomizer-adapter" -> "NamesRandomizerAdapter"
      [] t = "null-handling-adapter" -> "NullHandlingAdapter"
      [] t = "jsonl-file" -> "JSONLinesTarget"
      [] OTHER -> "none"

Registered(role) ==
    IF role = "source" THEN SourceTypes
    ELSE IF role = "adapter" THEN AdapterTypes
    ELSE {"jsonl-file"}

C13_RegistryDispatch ==
    /\ \A i \in DOMAIN built :
          /\ built[i].tag \in Registered(built[i].role)
          /\ built[i].inst = StageTypeOf(built[i].tag)
          /\ built[i].inst \notin {"nil", "none"}
    /\ Len(built) = (IF rpc = "source" THEN 0 ELSE nameIdx)
    /\ rpc # "source" => conf[taskName].source \in SourceTypes
    /\ rfatal = "unknown-source-type" =>
          rpc = "source" /\ conf[taskName].source \notin SourceTypes
    /\ rfatal = "unknown-adapter-type" =>
          /\ rpc = "adapters"
          /\ conf[taskName].adapters[names[nameIdx]].type \notin AdapterTypes
    /\ call.fn = "BuildTarget" =>
          /\ call.inst # "nil"
          /\ call.task \in Registered("target") =>
                call.inst = StageTypeOf(call.task)
          /\ call.task \notin Registered("target") =>
                rfatal = "unknown-target-type" /\ call.inst = "none"

C13_Witness ==
    /\ rfatal = "unknown-adapter-type"
    /\ Len(built) = 1
    /\ built[1].inst = "DatabaseQuerySource"
    /\ conf[taskName].adapters[names[nameIdx]].type = "jsonl-file-source"

(***************************************************************************)
(* C14: a lookup made with a task name that is absent from the             *)
(* configuration returns an error, GetAdapterConfig also with an absent    *)
(* adapter key, and RunTask on an absent task name calls log.Fatalf.       *)
(***************************************************************************)
C14_NotFoundOnAbsent ==
    /\ (call.fn \in Lookups /\ call.task \notin DOMAIN conf) => call.err
    /\ (call.fn = "GetAdapterConfig" /\ call.task \in DOMAIN conf
            /\ call.key \notin DOMAIN conf[call.task].adapters) => call.err
    /\ (taskName \notin DOMAIN conf /\ rpc = "source" /\ rfatal # "none") =>
          rfatal \in {"task-not-found", "unknown-target-type"}
    /\ taskName \notin DOMAIN conf => rpc = "source"

(***************************************************************************)
(* The goroutine of a source or of a target and the external resources it  *)
(* opens.  A deferred call runs when the function returns or panics, last  *)
(* deferred first; log.Fatal ends the process without running any.         *)
(***************************************************************************)
StageKinds == {"JSONLFileSource", "DatabaseQuerySource", "OracleSource",
               "JSONLinesTarget", "JSONLinesTarget.ndjson"}

(***************************************************************************)
(* The configured queries, by their length in bytes, around the length of  *)
(* the prefix the database sources log.                                    *)
(***************************************************************************)
PrefixLen == 24
QueryLens == {1, PrefixLen - 1, PrefixLen, PrefixLen + 1}

DefersDone(k) == k # "JSONLinesTarget.ndjson"
QueriesDatabase(k) == k \in {"DatabaseQuerySource", "OracleSource"}
FirstResource(k) == IF QueriesDatabase(k) THEN "db" ELSE "file"

Event(op, res) == [op |-> op, res |-> res]

StageInit ==
    /\ PipelineIdle
    /\ ResolveIdle
    /\ ExtraIdle
    /\ stKind \in StageKinds
    /\ stPc = "begin"
    /\ stOpen = {}
    /\ stDefers = << >>
    /\ stLog = << >>
    /\ stLeft \in 0..MaxRows
    /\ stExit = "no"
    /\ stQLen \in (IF QueriesDatabase(stKind) THEN QueryLens ELSE {0})

(***************************************************************************)
(* go func() { defer wg.Done() ...: all Run methods but the one of         *)
(* targets/ndjson.go defer the wg.Done().                                  *)
(***************************************************************************)
StBegin ==
    /\ stExit = "no"
    /\ stPc = "begin"
    /\ stDefers' = IF DefersDone(stKind) THEN << Event("done", "wg") >> ELSE << >>
    /\ stPc' = "open"
    /\ UNCHANGED << stKind, stQLen, stOpen, stLog, stLeft, stExit >>
    /\ UNCHANGED << pipeVars, resolveVars, extraVars >>

(***************************************************************************)
(* os.Open, os.Create or sqlx.Open, log.Fatal on an error, then the defer  *)
(* of the Close.                                                           *)
(***************************************************************************)
StOpenResource ==
    /\ stExit = "no"
    /\ stPc = "open"
    /\ \E ok \in BOOLEAN :
          IF ok
          THEN /\ stOpen' = stOpen \cup {FirstResource(stKind)}
               /\ stLog' = Append(stLog, Event("open", FirstResource(stKind)))
               /\ stDefers' = << Event("close", FirstResource(stKind)) >> \o stDefers
               /\ stPc' = IF QueriesDatabase(stKind) THEN "query" ELSE "loop"
               /\ UNCHANGED stExit
          ELSE /\ stExit' = "fatal"
               /\ UNCHANGED << stOpen, stLog, stDefers, stPc >>
    /\ UNCHANGED << stKind, stQLen, stLeft >>
    /\ UNCHANGED << pipeVars, resolveVars, extraVars >>

(***************************************************************************)
(* A database source: src.query[:24], which panics on a query shorter      *)
(* than 24 bytes, then db.Queryx, log.Fatal on an error, then the defer    *)
(* of rows.Close.                                                          *)
(***************************************************************************)
QueryOutcomes(n) ==
    IF n < PrefixLen THEN {"short-query"} ELSE {"rows", "error"}

StQuery ==
    /\ stExit = "no"
    /\ stPc = "query"
    /\ \E outcome \in QueryOutcomes(stQLen) :
          IF outcome = "rows"
          THEN /\ stOpen' = stOpen \cup {"rows"}
               /\ stLog' = Append(stLog, Event("open", "rows"))
               /\ stDefers' = << Event("close", "rows") >> \o stDefers
               /\ stPc' = "loop"
               /\ UNCHANGED stExit
          ELSE IF outcome = "error"
          THEN /\ stExit' = "fatal"
               /\ UNCHANGED << stOpen, stLog, stDefers, stPc >>
          ELSE /\ stPc' = "panic"
               /\ UNCHANGED << stOpen, stLog, stDefers, stExit >>
    /\ UNCHANGED << stKind, stQLen, stLeft >>
    /\ UNCHANGED << pipeVars, resolveVars, extraVars >>

(***************************************************************************)
(* One turn of the loop: a row is read and sent, or received and written,  *)
(* with log.Fatal on an error; at the end of the input the loop ends, a    *)
(* source closes its channel, and the function returns, the target of      *)
(* targets/ndjson.go calling tgt.wg.Done() first.                          *)
(***************************************************************************)
StLoop ==
    /\ stExit = "no"
    /\ stPc = "loop"
    /\ IF stLeft > 0
         THEN \E ok \in BOOLEAN :
                 IF ok
                 THEN /\ stLeft' = stLeft - 1
                      /\ UNCHANGED << stPc, stExit >>
                 ELSE /\ stExit' = "fatal"
                      /\ UNCHANGED << stPc, stLeft >>
         ELSE /\ stPc' = IF DefersDone(stKind) THEN "return" ELSE "done"
              /\ UNCHANGED << stLeft, stExit >>
    /\ UNCHANGED << stKind, stQLen, stOpen, stDefers, stLog >>
    /\ UNCHANGED << pipeVars, resolveVars, extraVars >>

StExplicitDone ==
    /\ stExit = "no"
    /\ stPc = "done"
    /\ stLog' = Append(stLog, Event("done", "wg"))
    /\ stPc' = "return"
    /\ UNCHANGED << stKind, stQLen, stOpen, stDefers, stLeft, stExit >>
    /\ UNCHANGED << pipeVars, resolveVars, extraVars >>

(***************************************************************************)
(* The function returns or panics: the deferred calls run, last deferred   *)
(* first; after them a panic ends the process.                             *)
(***************************************************************************)
StRunDeferred ==
    /\ stExit = "no"
    /\ stPc \in {"return", "panic"}
    /\ IF stDefers # << >>
         THEN /\ stLog' = Append(stLog, Head(stDefers))
              /\ stDefers' = Tail(stDefers)
              /\ stOpen' = IF Head(stDefers).op = "close"
                           THEN stOpen \ {Head(stDefers).res} ELSE stOpen
              /\ UNCHANGED << stPc, stExit >>
         ELSE /\ stPc' = "returned"
              /\ stExit' = IF stPc = "panic" THEN "panic" ELSE stExit
              /\ UNCHANGED << stLog, stDefers, stOpen >>
    /\ UNCHANGED << stKind, stQLen, stLeft >>
    /\ UNCHANGED << pipeVars, resolveVars, extraVars >>

(***************************************************************************)
(* RunTask: once the goroutine has called wg.Done(), wg.Wait() returns,    *)
(* RunTask returns and the process ends.                                   *)
(***************************************************************************)
DoneSignalled == \E i \in DOMAIN stLog : stLog[i] = Event("done", "wg")

StProcessExit ==
    /\ stExit = "no"
    /\ DoneSignalled
    /\ stExit' = "returned"
    /\ UNCHANGED << stKind, stQLen, stPc, stOpen, stDefers, stLog, stLeft >>
    /\ UNCHANGED << pipeVars, resolveVars, extraVars >>

StageNext ==
    \/ StBegin
    \/ StOpenResource
    \/ StQuery
    \/ StLoop
    \/ StExplicitDone
    \/ StRunDeferred
    \/ StProcessExit

StageSpec == StageInit /\ [][StageNext]_vars

(***************************************************************************)
(* C20: when a source or a target calls wg.Done(), it has closed every     *)
(* external resource it opened.                                            *)
(***************************************************************************)
C20_ReleaseBeforeCompletion ==
    \A i \in DOMAIN stLog :
        stLog[i].op = "done" =>
            \A j \in 1..(i - 1) :
                stLog[j].op = "open" =>
                    \E k \in (j + 1)..(i - 1) :
                        stLog[k] = Event("close", stLog[j].res)


(***************************************************************************)
(* ONE ADAPTER ON ITS ROWS.  The loop of an adapter's Run, for each of the *)
(* adapters of the repository, on rows of two fields: "name" and "other".  *)
(* The id of a row is the identity of the map the channel carries.         *)
(***************************************************************************)
MaxRecs == 2

NameValues == {"", "a", "aB", "1", "YES", "2023-01-02", "E:a", "bTrue",
               NULL, ABSENT}
OtherValues == {"a", "M", NULL, ABSENT}
Recs(i) == [id : {i}, name : NameValues, other : OtherValues]

FieldLists == { <<"name">>, <<"name", "other">> }

(***************************************************************************)
(* The adapter configurations: the type, the listed fields and the         *)
(* argument the loop switches on.  A names-randomizer lists its firstname  *)
(* and lastname fields and has its maleflag field as argument; the         *)
(* null-handling adapter takes no list of fields.                          *)
(***************************************************************************)
RowAdapterConfigs ==
    [type : {"cast-to-datatype-adapter"},
     arg : {"boolean", "int64", "float64", "datetime", "text"},
     fields : FieldLists]
    \cup [type : {"case-conversion-adapter"},
          arg : {"upper", "lower", "title", "camel"}, fields : FieldLists]
    \cup [type : {"null-handling-adapter"}, arg : {"remove", "keep"},
          fields : {<< >>}]
    \cup [type : {"cast-to-boolean"}, arg : {"none"}, fields : FieldLists]
    \cup [type : {"constant-mapping-adapter"}, arg : {"none"},
          fields : FieldLists]
    \cup [type : {"crypto-aescbczero-adapter"}, arg : {"encrypt", "decrypt"},
          fields : FieldLists]
    \cup [type : {"names-randomizer-adapter"}, arg : {"other"},
          fields : {<<"name", "other">>, <<"name", "surname">>}]

(***************************************************************************)
(* The loop body of CastToBooleanAdapter.Run and castGivenFieldsToBoolean: *)
(* every listed key of the row, a nil value included.                      *)
(***************************************************************************)
BooleanFieldExact(raw) ==
    LET strValue == Sprint(raw)
    IN  IF strValue = "1" \/ strValue = "yes" \/ strValue = "true"
        THEN "bTrue" ELSE "bFalse"

BooleanField(raw) ==
    LET strValue == ToLower(Sprint(raw))
    IN  IF strValue = "1" \/ strValue = "yes" \/ strValue = "true"
        THEN "bTrue" ELSE "bFalse"

CastToBoolean(fields, row) ==
    [err |-> "none",
     row |-> [f \in DOMAIN row |->
                IF f \in FieldSet(fields) /\ Has(row, f)
                THEN BooleanField(row[f]) ELSE row[f]]]

(***************************************************************************)
(* ConstantMappingAdapter.Run with the map and the otherwise value the     *)
(* constructor read.                                                       *)
(***************************************************************************)
MapData == ("a" :> "alpha") @@ ("1" :> "one")
Otherwise == "unknown"

ConstantMappingKeeps(fields, mapData, row) ==
    [err |-> "none",
     row |-> [f \in DOMAIN row |->
                IF f \in NonNull(fields, row) /\ Sprint(row[f]) \in DOMAIN mapData
                THEN mapData[Sprint(row[f])]
                ELSE row[f]]]

ConstantMapping(fields, mapData, row) ==
    [err |-> "none",
     row |-> [f \in DOMAIN row |->
                IF f \in NonNull(fields, row)
                THEN IF Sprint(row[f]) \in DOMAIN mapData
                     THEN mapData[Sprint(row[f])] ELSE Otherwise
                ELSE row[f]]]

(***************************************************************************)
(* CryptoAESCBCZeroAdapter.Run converts the listed fields that hold a      *)
(* string.  "E:a" is the base64 text of the encryption of "a"; the empty   *)
(* string encrypts and decrypts to itself; the other strings of the model  *)
(* are not base64 text and DecodeString fails on them.                     *)
(***************************************************************************)
IsString(v) ==
    v \notin {NULL, ABSENT, "i0", "i1", "f0", "f1", "bTrue", "bFalse"}
encryptAESCBCWithZeropad(s) ==
    CASE s = "" -> ""
      [] s = "a" -> "E:a"
      [] OTHER -> "E:?"
decryptAESCBCZeropad(s) ==
    CASE s = "" -> [err |-> "none", value |-> ""]
      [] s = "E:a" -> [err |-> "none", value |-> "a"]
      [] OTHER -> [err |-> "malformed-value", value |-> ""]

CryptoAESCBCZero(fields, direction, row) ==
    LET todo == { f \in FieldSet(fields) : IsString(Get(row, f)) }
        bad == { f \in todo : decryptAESCBCZeropad(row[f]).err # "none" }
    IN  IF direction = "decrypt"
        THEN IF bad # {}
             THEN [err |-> "malformed-value", row |-> row]
             ELSE [err |-> "none",
                   row |-> [f \in DOMAIN row |->
                              IF f \in todo
                              THEN decryptAESCBCZeropad(row[f]).value
                              ELSE row[f]]]
        ELSE [err |-> "none",
              row |-> [f \in DOMAIN row |->
                         IF f \in todo
                         THEN encryptAESCBCWithZeropad(row[f])
                         ELSE row[f]]]

(***************************************************************************)
(* The global generator of math/rand: rand.Float64() returns the next      *)
(* number of the generator's stream, in hundredths, and moves the          *)
(* generator on.  The model's stream has period RandPeriod.                *)
(***************************************************************************)
FloatStream == <<10, 80, 45>>
RandPeriod == Len(FloatStream)
Float64(g) == FloatStream[g + 1]
Advance(g) == (g + 1) % RandPeriod

(***************************************************************************)
(* The names data the constructor read, and getRandomName: the first name  *)
(* whose cumulated frequency reaches rand.Float64() * max.                 *)
(***************************************************************************)
maleData == << [name |-> "Bob", cumFreq |-> 1], [name |-> "Tom", cumFreq |-> 2] >>
femaleData == << [name |-> "Ann", cumFreq |-> 1], [name |-> "Eve", cumFreq |-> 2] >>
allData == << [name |-> "Smith", cumFreq |-> 1], [name |-> "Jones", cumFreq |-> 2] >>

getRandomName(data, g) ==
    LET count == Len(data)
        max == data[count].cumFreq
        idx == CHOOSE i \in 1..count :
                   /\ data[i].cumFreq * 100 >= Float64(g) * max
                   /\ \A j \in 1..(i - 1) : data[j].cumFreq * 100 < Float64(g) * max
    IN  data[idx].name

(***************************************************************************)
(* The loop body of NamesRandomizerAdapter.Run: the row and the state of   *)
(* the global generator after it.  The field rng of the adapter is not     *)
(* read.  No string of the model has spaces to trim.                       *)
(***************************************************************************)
HasPrefixM(s) == s \in {"M"}

NamesRandomizer(firstName, lastName, maleFlagField, row, g) ==
    LET maleFlag == ToUpper(Sprint(Get(row, maleFlagField)))
        first == IF ~Has(row, firstName) THEN [row |-> row, g |-> g]
                 ELSE [row |-> [row EXCEPT ![firstName] =
                                  IF HasPrefixM(maleFlag)
                                  THEN getRandomName(maleData, g)
                                  ELSE getRandomName(femaleData, g)],
                       g |-> Advance(g)]
    IN  IF ~Has(first.row, lastName)
        THEN [err |-> "none", row |-> first.row, grand |-> first.g]
        ELSE [err |-> "none",
              row |-> [first.row EXCEPT ![lastName] = getRandomName(allData, first.g)],
              grand |-> Advance(first.g)]

(***************************************************************************)
(* The loop body of the adapter built from ac.                             *)
(***************************************************************************)
Body(ac, row, g) ==
    LET r == CASE ac.type = "cast-to-datatype-adapter" ->
                    CastToDatatype(ac.fields, ac.arg, row)
               [] ac.type = "case-conversion-adapter" ->
                    CaseConversion(ac.fields, ac.arg, row)
               [] ac.type = "null-handling-adapter" -> NullHandling(ac.arg, row)
               [] ac.type = "cast-to-boolean" -> CastToBoolean(ac.fields, row)
               [] ac.type = "constant-mapping-adapter" ->
                    ConstantMapping(ac.fields, amap, row)
               [] ac.type = "crypto-aescbczero-adapter" ->
                    CryptoAESCBCZero(ac.fields, ac.arg, row)
               [] OTHER -> [err |-> "none", row |-> row]
    IN  IF ac.type = "names-randomizer-adapter"
        THEN NamesRandomizer(ac.fields[1], ac.fields[2], ac.arg, row, g)
        ELSE [err |-> r.err, row |-> r.row, grand |-> g]

CoreIdle == PipelineIdle /\ ResolveIdle /\ StageIdle

AdapterInit ==
    /\ CoreIdle
    /\ CryptoIdle
    /\ RandIdle
    /\ ChainIdle
    /\ acfg \in RowAdapterConfigs
    /\ apc = "recv"
    /\ arow = NoRec
    /\ arecv = NoRec
    /\ asent = NoRec
    /\ anum = 0
    /\ grand \in 0..(RandPeriod - 1)
    /\ amap = MapData

(***************************************************************************)
(* for row := range in: the next row of the input, or the end of the loop  *)
(* when the input is closed, then close(out) and the deferred wg.Done().   *)
(***************************************************************************)
RunRecv ==
    /\ apc = "recv"
    /\ anum < MaxRecs
    /\ \E r \in Recs(anum + 1) :
         /\ arow' = r
         /\ arecv' = r
    /\ anum' = anum + 1
    /\ apc' = "body"
    /\ UNCHANGED << acfg, asent, grand, amap >>
    /\ UNCHANGED << pipeVars, resolveVars, stageVars, randVars, chainVars,
                 cryptoVars >>

RunClose ==
    /\ apc = "recv"
    /\ apc' = "closed"
    /\ UNCHANGED << acfg, arow, arecv, asent, anum, grand, amap >>
    /\ UNCHANGED << pipeVars, resolveVars, stageVars, randVars, chainVars,
                 cryptoVars >>

(***************************************************************************)
(* The body of the loop up to the send: the row is changed in place, or    *)
(* log.Fatalf or a panic ends the process.                                 *)
(***************************************************************************)
RunBody ==
    /\ apc = "body"
    /\ LET r == Body(acfg, arow, grand)
       IN  IF r.err = "none"
           THEN /\ arow' = r.row
                /\ grand' = r.grand
                /\ apc' = "send"
           ELSE /\ apc' = (IF r.err = PANIC THEN "panic" ELSE "exit")
                /\ UNCHANGED << arow, grand >>
    /\ UNCHANGED << acfg, arecv, asent, anum, amap >>
    /\ UNCHANGED << pipeVars, resolveVars, stageVars, randVars, chainVars,
                 cryptoVars >>

(***************************************************************************)
(* out <- row: the map the adapter received is the map it sends.           *)
(***************************************************************************)
RunSendCopy ==
    /\ apc = "send"
    /\ asent' = [arow EXCEPT !.id = anum + MaxRecs]
    /\ arow' = NoRec
    /\ apc' = "recv"
    /\ UNCHANGED << acfg, arecv, anum, grand, amap >>
    /\ UNCHANGED << pipeVars, resolveVars, stageVars, randVars, chainVars,
                 cryptoVars >>

RunSend ==
    /\ apc = "send"
    /\ asent' = arow
    /\ arow' = NoRec
    /\ apc' = "recv"
    /\ UNCHANGED << acfg, arecv, anum, grand, amap >>
    /\ UNCHANGED << pipeVars, resolveVars, stageVars, randVars, chainVars,
                 cryptoVars >>

AdapterNext ==
    \/ RunRecv
    \/ RunBody
    \/ RunSend
    \/ RunClose

AdapterSpec == AdapterInit /\ [][AdapterNext]_vars

(***************************************************************************)
(* C21: a cast-to-datatype adapter sends a row only if every listed,       *)
(* present, non-null field of the row it received parsed as the configured *)
(* datatype; a value that does not parse ends the task and the row is not  *)
(* sent with a value put in its place.                                     *)
(***************************************************************************)
ParsesAs(dataType, s) ==
    CASE dataType = "boolean" -> ParseBoolOk(ToLower(s))
      [] dataType = "int64" -> ParseIntOk(s)
      [] dataType = "float64" -> ParseFloatOk(s)
      [] dataType = "datetime" -> TimeParseOk(s)
      [] OTHER -> FALSE

C21_MalformedRecordAborts ==
    (acfg.type = "cast-to-datatype-adapter" /\ apc = "send") =>
        \A f \in NonNull(acfg.fields, arecv) :
            ParsesAs(acfg.arg, Sprint(arecv[f]))


(***************************************************************************)
(* TWO NAMES-RANDOMIZER ADAPTERS built from the same configuration and     *)
(* given the same rows.                                                    *)
(***************************************************************************)
MaxRandRows == 2

Instances == {1, 2}
Seeds == {"1", "a"}
TimeSeeds == {"t1", "t2"}
RandRows == [id : {0}, name : {"a"}, other : {"M", "a", NULL}]
RandInputs == UNION { [1..k -> RandRows] : k \in 1..MaxRandRows }

RandInit ==
    /\ CoreIdle
    /\ CryptoIdle
    /\ ChainIdle
    /\ acfg = NoAdapter
    /\ apc = "idle"
    /\ arow = NoRec
    /\ arecv = NoRec
    /\ asent = NoRec
    /\ anum = 0
    /\ amap = << >>
    /\ grand \in 0..(RandPeriod - 1)
    /\ nseed \in Seeds
    /\ nrng = [i \in Instances |-> "none"]
    /\ nin \in RandInputs
    /\ npos = [i \in Instances |-> 0]
    /\ nout = [i \in Instances |-> << >>]

(***************************************************************************)
(* newRandomGenerator: the seed is replaced by the clock when it parses,   *)
(* and is the zero ParseInt returns with its error when it does not.       *)
(***************************************************************************)
newRandomGenerator(raw) ==
    IF ParseIntOk(raw) THEN TimeSeeds ELSE { ParseInt(raw) }

NewNamesRandomizerAdapter(i) ==
    /\ npos[i] = 0
    /\ \E seed \in newRandomGenerator(nseed) :
         nrng' = [nrng EXCEPT ![i] = seed]
    /\ npos' = [npos EXCEPT ![i] = 1]
    /\ UNCHANGED << nseed, nin, nout, grand >>
    /\ UNCHANGED << acfg, apc, arow, arecv, asent, anum, amap >>
    /\ UNCHANGED << pipeVars, resolveVars, stageVars, chainVars, cryptoVars >>

(***************************************************************************)
(* One turn of the loop of instance i: it assigns the names to its row and *)
(* sends it.                                                               *)
(***************************************************************************)
RandomizeRow(i) ==
    /\ npos[i] \in 1..Len(nin)
    /\ LET r == NamesRandomizer("name", "surname", "other", nin[npos[i]], grand)
       IN  /\ nout' = [nout EXCEPT ![i] = Append(@, r.row.name)]
           /\ grand' = r.grand
    /\ npos' = [npos EXCEPT ![i] = @ + 1]
    /\ UNCHANGED << nseed, nin, nrng >>
    /\ UNCHANGED << acfg, apc, arow, arecv, asent, anum, amap >>
    /\ UNCHANGED << pipeVars, resolveVars, stageVars, chainVars, cryptoVars >>

RandNext ==
    \/ \E i \in Instances : NewNamesRandomizerAdapter(i)
    \/ \E i \in Instances : RandomizeRow(i)

RandSpec == RandInit /\ [][RandNext]_vars

(***************************************************************************)
(* C22: two adapters built from the same configuration assign the same     *)
(* names to the same rows, whatever the other instance has done meanwhile. *)
(***************************************************************************)
C22_IdempotentConstruction ==
    \A i \in Instances : \A j \in Instances :
        \A k \in DOMAIN nout[i] \cap DOMAIN nout[j] : nout[i][k] = nout[j][k]


(***************************************************************************)
(* C23: once a log.Fatal has been hit, by RunTask while it builds and      *)
(* starts the stages or by any stage goroutine, the process has exited     *)
(* with the status 1 of log.Fatal, wg.Wait() of RunTask has not returned   *)
(* and nothing runs any more; a run in which no log.Fatal is hit reaches   *)
(* the end of RunTask.                                                     *)
(***************************************************************************)
ExitStatus == IF halted THEN 1 ELSE 0

C24_OneInOneOut ==
    /\ apc \in {"recv", "closed"} => asent.id = anum
    /\ apc \in {"body", "send", "exit", "panic"} =>
           /\ asent.id = anum - 1
           /\ arow.id = anum
           /\ arecv.id = anum

C24_Witness ==
    /\ acfg.type = "crypto-aescbczero-adapter"
    /\ apc = "closed"
    /\ anum = MaxRecs
    /\ asent.id = MaxRecs
    /\ asent # arecv


(***************************************************************************)
(* THE EARLIER TASK FUNCTIONS.  RunTask of null.go and of part_008 and     *)
(* ExecuteFetch start the source, then each adapter (or change) on the     *)
(* variable prev (ch), keeping the channel returned in next (ch2), and     *)
(* hand next to the consumer.  Stage 0 is the source, 1..cnum the          *)
(* adapters, cnum + 1 the consumer: the target's goroutine, or the result  *)
(* loop of ExecuteFetch itself.  A row carries its number and the adapters *)
(* that have processed it.                                                 *)
(***************************************************************************)
MaxChain == 2
MaxChainRows == 2

ChainVariants == {"null.go", "part_008", "ExecuteFetch"}
ChainStages == 0..(MaxChain + 1)
Consumer == cnum + 1
NoChainRow == [id |-> 0, via |-> << >>]

(***************************************************************************)
(* The stages that register with the wait group: every stage's Run in      *)
(* null.go; in part_008 the target only, RunTask adding one for it; none   *)
(* in ExecuteFetch.                                                        *)
(***************************************************************************)
ChainTracked(s) ==
    \/ cvar = "null.go"
    \/ cvar = "part_008" /\ s = Consumer

ChainInit ==
    /\ CoreIdle
    /\ CryptoIdle
    /\ RowIdle
    /\ RandIdle
    /\ cvar \in ChainVariants
    /\ cnum \in 0..MaxChain
    /\ crows \in 0..MaxChainRows
    /\ cmain = "source"
    /\ cadx = 1
    /\ cprev = NoChan
    /\ cnext = NoChan
    /\ cpc = [s \in ChainStages |-> "unstarted"]
    /\ cin = [s \in ChainStages |-> NoChan]
    /\ chold = [s \in ChainStages |-> NoChainRow]
    /\ csrc = 1
    /\ cclosed = {}
    /\ cwg = 0
    /\ cgot = << >>

(***************************************************************************)
(* prev = source.Run(...); next = prev.  ExecuteFetch declares ch2 without *)
(* a value: it is the nil channel.                                         *)
(***************************************************************************)
ChainStartSource ==
    /\ cmain = "source"
    /\ cprev' = 0
    /\ cnext' = IF cvar = "ExecuteFetch" THEN NoChan ELSE 0
    /\ cpc' = [cpc EXCEPT ![0] = "read"]
    /\ cwg' = IF ChainTracked(0) THEN cwg + 1 ELSE cwg
    /\ cmain' = IF cnum = 0 THEN "target" ELSE "adapters"
    /\ UNCHANGED << cvar, cnum, crows, cadx, cin, chold, csrc, cclosed, cgot >>
    /\ UNCHANGED << pipeVars, resolveVars, stageVars, rowVars, randVars,
                 cryptoVars >>

(***************************************************************************)
(* next = adapter.Run(..., prev), and ch2 = changers.CastToBoolean(ch,     *)
(* ...): the adapter ranges over prev, which the loop does not assign.     *)
(***************************************************************************)
ChainStartAdapter ==
    /\ cmain = "adapters"
    /\ cnext' = cadx
    /\ cin' = [cin EXCEPT ![cadx] = cprev]
    /\ cpc' = [cpc EXCEPT ![cadx] = "recv"]
    /\ cwg' = IF ChainTracked(cadx) THEN cwg + 1 ELSE cwg
    /\ cadx' = cadx + 1
    /\ cmain' = IF cadx = cnum THEN "target" ELSE "adapters"
    /\ UNCHANGED << cvar, cnum, crows, cprev, chold, csrc, cclosed, cgot >>
    /\ UNCHANGED << pipeVars, resolveVars, stageVars, rowVars, randVars,
                 cryptoVars >>

(***************************************************************************)
(* target.Run(..., next) and wg.Wait(), or the loop of ExecuteFetch over   *)
(* ch2.                                                                    *)
(***************************************************************************)
ChainStartConsumer ==
    /\ cmain = "target"
    /\ cin' = [cin EXCEPT ![Consumer] = cnext]
    /\ cpc' = [cpc EXCEPT ![Consumer] = "recv"]
    /\ cwg' = IF ChainTracked(Consumer) THEN cwg + 1 ELSE cwg
    /\ cmain' = IF cvar = "ExecuteFetch" THEN "range" ELSE "wait"
    /\ UNCHANGED << cvar, cnum, crows, cadx, cprev, cnext, chold, csrc,
                    cclosed, cgot >>
    /\ UNCHANGED << pipeVars, resolveVars, stageVars, rowVars, randVars,
                 cryptoVars >>

ChainWait ==
    /\ cmain = "wait"
    /\ cwg = 0
    /\ cmain' = "finished"
    /\ UNCHANGED << cvar, cnum, crows, cadx, cprev, cnext, cpc, cin, chold,
                    csrc, cclosed, cwg, cgot >>
    /\ UNCHANGED << pipeVars, resolveVars, stageVars, rowVars, randVars,
                 cryptoVars >>

(***************************************************************************)
(* The goroutines.  RunTask returning ends the process and with it the     *)
(* goroutines still running.                                               *)
(***************************************************************************)
ChainRunning == cmain # "finished"

ChainSourceRead ==
    /\ ChainRunning
    /\ cpc[0] = "read"
    /\ IF csrc <= crows
         THEN /\ chold' = [chold EXCEPT ![0] = [id |-> csrc, via |-> << >>]]
              /\ csrc' = csrc + 1
              /\ cpc' = [cpc EXCEPT ![0] = "send"]
         ELSE /\ cpc' = [cpc EXCEPT ![0] = "close"]
              /\ UNCHANGED << chold, csrc >>
    /\ UNCHANGED << cvar, cnum, crows, cmain, cadx, cprev, cnext, cin,
                    cclosed, cwg, cgot >>
    /\ UNCHANGED << pipeVars, resolveVars, stageVars, rowVars, randVars,
                 cryptoVars >>

ChainHandoff(p, q) ==
    /\ ChainRunning
    /\ cpc[p] = "send"
    /\ cpc[q] = "recv"
    /\ cin[q] = p
    /\ chold' = [chold EXCEPT ![q] = chold[p], ![p] = NoChainRow]
    /\ cpc' = [cpc EXCEPT ![q] = IF q = Consumer THEN "write" ELSE "proc",
                          ![p] = IF p = 0 THEN "read" ELSE "recv"]
    /\ UNCHANGED << cvar, cnum, crows, cmain, cadx, cprev, cnext, cin, csrc,
                    cclosed, cwg, cgot >>
    /\ UNCHANGED << pipeVars, resolveVars, stageVars, rowVars, randVars,
                 cryptoVars >>

ChainProcess(s) ==
    /\ ChainRunning
    /\ cpc[s] = "proc"
    /\ chold' = [chold EXCEPT ![s].via = Append(@, s)]
    /\ cpc' = [cpc EXCEPT ![s] = "send"]
    /\ UNCHANGED << cvar, cnum, crows, cmain, cadx, cprev, cnext, cin, csrc,
                    cclosed, cwg, cgot >>
    /\ UNCHANGED << pipeVars, resolveVars, stageVars, rowVars, randVars,
                 cryptoVars >>

ChainConsume ==
    /\ ChainRunning
    /\ cpc[Consumer] = "write"
    /\ cgot' = Append(cgot, chold[Consumer])
    /\ chold' = [chold EXCEPT ![Consumer] = NoChainRow]
    /\ cpc' = [cpc EXCEPT ![Consumer] = "recv"]
    /\ UNCHANGED << cvar, cnum, crows, cmain, cadx, cprev, cnext, cin, csrc,
                    cclosed, cwg >>
    /\ UNCHANGED << pipeVars, resolveVars, stageVars, rowVars, randVars,
                 cryptoVars >>

(***************************************************************************)
(* The end of a range loop when its channel is closed.  The loop over the  *)
(* nil channel never ends, there being nothing to receive and no close.    *)
(***************************************************************************)
ChainRecvClosed(q) ==
    /\ ChainRunning
    /\ cpc[q] = "recv"
    /\ cin[q] \in cclosed
    /\ cpc' = [cpc EXCEPT ![q] = IF q = Consumer THEN "exit" ELSE "close"]
    /\ UNCHANGED << cvar, cnum, crows, cmain, cadx, cprev, cnext, cin, chold,
                    csrc, cclosed, cwg, cgot >>
    /\ UNCHANGED << pipeVars, resolveVars, stageVars, rowVars, randVars,
                 cryptoVars >>

ChainClose(s) ==
    /\ ChainRunning
    /\ cpc[s] = "close"
    /\ cclosed' = cclosed \cup {s}
    /\ cpc' = [cpc EXCEPT ![s] = "exit"]
    /\ UNCHANGED << cvar, cnum, crows, cmain, cadx, cprev, cnext, cin, chold,
                    csrc, cwg, cgot >>
    /\ UNCHANGED << pipeVars, resolveVars, stageVars, rowVars, randVars,
                 cryptoVars >>

(***************************************************************************)
(* The end of a goroutine, with its wg.Done() if it has one; the end of    *)
(* the result loop of ExecuteFetch is the end of ExecuteFetch.             *)
(***************************************************************************)
ChainDone(s) ==
    /\ ChainRunning
    /\ cpc[s] = "exit"
    /\ cpc' = [cpc EXCEPT ![s] = "done"]
    /\ cwg' = IF ChainTracked(s) THEN cwg - 1 ELSE cwg
    /\ cmain' = IF cvar = "ExecuteFetch" /\ s = Consumer THEN "finished" ELSE cmain
    /\ UNCHANGED << cvar, cnum, crows, cadx, cprev, cnext, cin, chold, csrc,
                    cclosed, cgot >>
    /\ UNCHANGED << pipeVars, resolveVars, stageVars, rowVars, randVars,
                 cryptoVars >>

ChainNext ==
    \/ ChainStartSource
    \/ ChainStartAdapter
    \/ ChainStartConsumer
    \/ ChainWait
    \/ ChainSourceRead
    \/ \E p \in ChainStages : \E q \in ChainStages : ChainHandoff(p, q)
    \/ \E s \in ChainStages : ChainProcess(s)
    \/ ChainConsume
    \/ \E q \in ChainStages : ChainRecvClosed(q)
    \/ \E s \in ChainStages : ChainClose(s)
    \/ \E s \in ChainStages : ChainDone(s)

ChainSpec == ChainInit /\ [][ChainNext]_vars
ChainFairSpec == ChainSpec /\ WF_vars(ChainNext)

(***************************************************************************)
(* C25: in the RunTask of null.go and of part_008, each adapter ranges     *)
(* over the channel of the stage started before it and the target over the *)
(* channel of the last adapter, and when RunTask has finished the target   *)
(* has been given every row of the source.                                 *)
(***************************************************************************)
ChainGotIds == { cgot[i].id : i \in DOMAIN cgot }

C25_ChainThreading ==
    (cvar \in {"null.go", "part_008"} /\ cnum >= 2) =>
        /\ \A s \in 1..cnum : cpc[s] # "unstarted" => cin[s] = s - 1
        /\ cpc[Consumer] # "unstarted" => cin[Consumer] = cnum
        /\ cmain = "finished" => ChainGotIds = 1..crows


(***************************************************************************)
(* C26: ExecuteFetch reaches its end, whatever the number of changes, and  *)
(* has then printed each row of the source once, every change applied to   *)
(* it.                                                                     *)
(***************************************************************************)
AllChanges == [i \in 1..cnum |-> i]

PrintedOnce ==
    /\ Len(cgot) = crows
    /\ ChainGotIds = 1..crows
    /\ \A i \in DOMAIN cgot : cgot[i].via = AllChanges

C26_FetchTerminates ==
    (cvar = "ExecuteFetch") => <>(cmain = "finished" /\ PrintedOnce)


(***************************************************************************)
(* C27: the counter of the wait group is never negative and is the number  *)
(* of stage goroutines started and not returned; the stages have called    *)
(* wg.Done() no more often than wg.Add(1) was called, each stage at most   *)
(* once and only after its Run added one.                                  *)
(***************************************************************************)
AddCalls == Cardinality({ s \in Stages : Started(s) })

C27_TrackerCounter ==
    /\ wg >= 0
    /\ wg = Cardinality(RunningStages)
    /\ SumCalls(Stages) <= AddCalls
    /\ \A s \in Stages : doneCalls[s] <= (IF Started(s) THEN 1 ELSE 0)

C27_Witness ==
    /\ ~halted
    /\ mainPc = "wait"
    /\ NA >= 1
    /\ \A s \in {0} \cup Adapters : pc[s] = "done"
    /\ \A t \in Targets : pc[t] \notin {"unstarted", "done"}
    /\ wg = NumTargets
    /\ Len(cfg.rows) >= 1


(***************************************************************************)
(* C28: with handling upper, lower or title the case-conversion adapter    *)
(* ends no process and sends each row with every listed, present, non-null *)
(* field replaced by the upper-cased, lower-cased or capitalised string    *)
(* form of its value (the empty string converting to itself) and the other *)
(* fields as received.                                                     *)
(***************************************************************************)
Capitalised(s) == IF s = "" THEN "" ELSE titleCase(s)

CaseOf(handling, s) ==
    CASE handling = "upper" -> ToUpper(s)
      [] handling = "lower" -> ToLower(s)
      [] handling = "title" -> Capitalised(s)

C28_CaseConversion ==
    (acfg.type = "case-conversion-adapter" /\ acfg.arg \in {"upper", "lower", "title"}) =>
        /\ apc \notin {"exit", "panic"}
        /\ apc = "send" =>
               \A f \in {"name", "other"} :
                   arow[f] = IF f \in NonNull(acfg.fields, arecv)
                             THEN CaseOf(acfg.arg, Sprint(arecv[f]))
                             ELSE arecv[f]


(***************************************************************************)
(* C29: the cast-to-boolean adapter ends no process and sends each row     *)
(* with every listed field that is a key of the row set to true when the   *)
(* lower-cased string form of its value is "1", "yes" or "true" and to     *)
(* false otherwise, a nil value included; a listed field that is not a key *)
(* of the row is not added and the fields not listed keep their values.    *)
(***************************************************************************)
TrueStrings == {"1", "yes", "true"}

C29_CastToBoolean ==
    acfg.type = "cast-to-boolean" =>
        /\ apc \notin {"exit", "panic"}
        /\ apc = "send" =>
               \A f \in {"name", "other"} :
                   IF f \in FieldSet(acfg.fields) /\ arecv[f] # ABSENT
                   THEN arow[f] = (IF ToLower(Sprint(arecv[f])) \in TrueStrings
                                   THEN "bTrue" ELSE "bFalse")
                   ELSE arow[f] = arecv[f]

C29_Witness ==
    /\ acfg = [type |-> "cast-to-boolean", arg |-> "none", fields |-> <<"name">>]
    /\ apc = "send"
    /\ arecv.name = "YES"
    /\ arow.name = "bTrue"
    /\ arecv.other = NULL
    /\ arow.other = NULL
    /\ asent.name = "bFalse"


(***************************************************************************)
(* C30: with handling remove the null-handling adapter ends no process and *)
(* sends each row with the keys whose value is nil deleted and the other   *)
(* keys as received; with another handling it sends a row as received when *)
(* no value of the row is nil, and the process is ended by log.Fatalf, and *)
(* only then, on a row that has a nil value, which is not sent.            *)
(***************************************************************************)
HasNull(row) == \E f \in {"name", "other"} : row[f] = NULL

C30_NullHandling ==
    acfg.type = "null-handling-adapter" =>
        /\ apc # "panic"
        /\ acfg.arg = "remove" =>
               /\ apc # "exit"
               /\ apc = "send" =>
                      \A f \in {"name", "other"} :
                          arow[f] = IF arecv[f] = NULL THEN ABSENT ELSE arecv[f]
        /\ acfg.arg # "remove" =>
               /\ apc = "send" => (~HasNull(arecv) /\ arow = arecv)
               /\ apc = "exit" => HasNull(arecv)
               /\ ~HasNull(asent)

C30_Witness ==
    /\ acfg.type = "null-handling-adapter"
    /\ acfg.arg = "remove"
    /\ apc = "send"
    /\ anum = 2
    /\ arecv.name = NULL
    /\ arow.name = ABSENT
    /\ arecv.other = "a"
    /\ arow.other = "a"


(***************************************************************************)
(* C31: the cast-to-datatype, case-conversion and constant-mapping         *)
(* adapters change only the listed fields that are present and not nil:    *)
(* in the row an adapter of these types is about to send, and in the row   *)
(* it sent, every field that is not listed, or that is absent or nil in    *)
(* the row received, is as it was received, and the row has the keys it    *)
(* had when received, no more and no fewer.                                *)
(***************************************************************************)
FieldAdapterTypes ==
    {"cast-to-datatype-adapter", "case-conversion-adapter",
     "constant-mapping-adapter"}

FrameKept(fields, before, after) ==
    \A f \in {"name", "other"} :
        /\ (f \notin FieldSet(fields) \/ before[f] \in {NULL, ABSENT}) =>
               after[f] = before[f]
        /\ (after[f] = ABSENT) <=> (before[f] = ABSENT)

C31_FieldAdapterFrame ==
    acfg.type \in FieldAdapterTypes =>
        /\ apc = "send" => FrameKept(acfg.fields, arecv, arow)
        /\ (apc \in {"recv", "closed"} /\ anum > 0) =>
               FrameKept(acfg.fields, arecv, asent)

C31_Witness ==
    /\ acfg = [type |-> "cast-to-datatype-adapter", arg |-> "datetime",
               fields |-> <<"name", "other">>]
    /\ apc = "recv"
    /\ arecv.name = "2023-01-02"
    /\ asent.name = "02/01/2023"
    /\ arecv.other = NULL
    /\ asent.other = NULL


(***************************************************************************)
(* C32: the constant-mapping adapter ends no process, and in the row it is *)
(* about to send every listed field that was received present and not nil  *)
(* holds the constant mapped to the string form of the value received when *)
(* that string is a key of the mapping table, and the otherwise value when *)
(* it is not; no step of the adapter changes the mapping table.            *)
(***************************************************************************)
Mapped(fields, before, after) ==
    \A f \in FieldSet(fields) :
        before[f] \notin {NULL, ABSENT} =>
            after[f] = IF Sprint(before[f]) \in DOMAIN amap
                       THEN amap[Sprint(before[f])] ELSE Otherwise

C32_ConstantMapping ==
    /\ [](acfg.type = "constant-mapping-adapter" =>
            /\ apc \notin {"exit", "panic"}
            /\ apc = "send" => Mapped(acfg.fields, arecv, arow)
            /\ (apc \in {"recv", "closed"} /\ anum > 0) =>
                   Mapped(acfg.fields, arecv, asent))
    /\ [][amap' = amap]_vars

C32_Witness ==
    /\ acfg = [type |-> "constant-mapping-adapter", arg |-> "none",
               fields |-> <<"name", "other">>]
    /\ apc = "closed"
    /\ anum = 2
    /\ arecv.name = "1"
    /\ asent.name = "one"
    /\ arecv.other = "M"
    /\ asent.other = Otherwise
    /\ amap = MapData


(***************************************************************************)
(* C33: a database-query source with a non-empty query of any length does  *)
(* not panic: it never ends the process by a panic, and when its goroutine *)
(* has returned it has moved every row of the result and called wg.Done(). *)
(***************************************************************************)
C33_QueryLengthRobust ==
    (QueriesDatabase(stKind) /\ stQLen >= 1) =>
        /\ stPc # "panic"
        /\ stExit # "panic"
        /\ stPc = "returned" => (stLeft = 0 /\ DoneSignalled)


(***************************************************************************)
(* THE ZERO-PADDED CIPHER.  encryptAESCBCWithZeropad and                   *)
(* decryptAESCBCZeropad on bytes: a string is the sequence of its bytes,   *)
(* a base64 text the sequence of its digits, 0..63, with Pad for "=".      *)
(* The block cipher stands for AES: a keyed permutation of the bytes of a  *)
(* block, chained as CBC chains, with the addition modulo 256 in the place *)
(* of the exclusive or.                                                    *)
(***************************************************************************)
BlockSize == 16
MaxPlain == 33

Keys == {7, 250}
IVs == { [i \in 1..BlockSize |-> 0], [i \in 1..BlockSize |-> (i * 17) % 256] }

(***************************************************************************)
(* The plaintexts: bytes that are not zero, but for at most one byte, at   *)
(* any place, which is zero or 255.                                        *)
(***************************************************************************)
Plaintexts ==
    { [i \in 1..n |-> IF i = z THEN b ELSE ((i * 37) % 255) + 1] :
          n \in 0..MaxPlain, z \in 0..MaxPlain, b \in {0, 255} }

(***************************************************************************)
(* cipher.NewCBCEncrypter(aes, iv).CryptBlocks and its inverse, on an      *)
(* input that is a whole number of blocks; on another input both panic,    *)
(* which their callers below test.                                         *)
(***************************************************************************)
CryptBlocksEncrypt(key, iv, src) ==
    LET dst[i \in 1..Len(src)] ==
            (src[i] + (IF i <= BlockSize THEN iv[i] ELSE dst[i - BlockSize])
                 + key) % 256
    IN  dst

CryptBlocksDecrypt(key, iv, src) ==
    [i \in 1..Len(src) |->
        (src[i] + 512 - key
             - (IF i <= BlockSize THEN iv[i] ELSE src[i - BlockSize])) % 256]

(***************************************************************************)
(* base64.StdEncoding: three bytes give four digits, and an incomplete     *)
(* last group is filled with "=".  DecodeString fails on a text whose      *)
(* length is not a multiple of four.                                       *)
(***************************************************************************)
Pad == 64

EncodeToString(bytes) ==
    LET n == Len(bytes)
        at(i) == IF i <= n THEN bytes[i] ELSE 0
        group(g) == at(3 * g + 1) * 65536 + at(3 * g + 2) * 256 + at(3 * g + 3)
        digit(g, k) ==
            CASE k = 0 -> group(g) \div 262144
              [] k = 1 -> (group(g) \div 4096) % 64
              [] k = 2 -> IF 3 * g + 2 > n THEN Pad ELSE (group(g) \div 64) % 64
              [] OTHER -> IF 3 * g + 3 > n THEN Pad ELSE group(g) % 64
    IN  [j \in 1..(4 * ((n + 2) \div 3)) |-> digit((j - 1) \div 4, (j - 1) % 4)]

DecodeString(text) ==
    LET m == Len(text)
        pads == Cardinality({ j \in 1..m : text[j] = Pad })
        at(j) == IF text[j] = Pad THEN 0 ELSE text[j]
        group(g) == at(4 * g + 1) * 262144 + at(4 * g + 2) * 4096
                        + at(4 * g + 3) * 64 + at(4 * g + 4)
        byte(g, k) ==
            CASE k = 0 -> group(g) \div 65536
              [] k = 1 -> (group(g) \div 256) % 256
              [] OTHER -> group(g) % 256
    IN  IF m % 4 # 0 THEN [err |-> "malformed-value", value |-> << >>]
        ELSE [err |-> "none",
              value |-> [i \in 1..(3 * (m \div 4) - pads) |->
                            byte((i - 1) \div 3, (i - 1) % 3)]]

(***************************************************************************)
(* The padding of encryptAESCBCWithZeropad: blocksize - byteslen %         *)
(* blocksize zero bytes, and none when that is a whole block.              *)
(***************************************************************************)
paddedtxtAlways(bytestxt) ==
    LET padding == BlockSize - (Len(bytestxt) % BlockSize)
    IN  bytestxt \o [i \in 1..padding |-> 0]

paddedtxt(bytestxt) ==
    LET byteslen == Len(bytestxt)
        padding == IF BlockSize - (byteslen % BlockSize) = BlockSize
                   THEN 0 ELSE BlockSize - (byteslen % BlockSize)
    IN  bytestxt \o [i \in 1..padding |-> 0]

encryptAESCBCWithZeropadBytes(plaintxt, key, iv) ==
    EncodeToString(CryptBlocksEncrypt(key, iv, paddedtxt(plaintxt)))

(***************************************************************************)
(* decryptAESCBCZeropad: the decrypted bytes before the first zero byte,   *)
(* all of them when none is zero.                                          *)
(***************************************************************************)
decryptAESCBCZeropadBytes(ciphertxt, key, iv) ==
    LET decoded == DecodeString(ciphertxt)
        bytestxt == CryptBlocksDecrypt(key, iv, decoded.value)
        zeros == { i \in 1..Len(bytestxt) : bytestxt[i] = 0 }
        zeropos == IF zeros = {} THEN Len(bytestxt)
                   ELSE (CHOOSE i \in zeros : \A j \in zeros : i <= j) - 1
    IN  IF decoded.err # "none" THEN [err |-> decoded.err, value |-> << >>]
        ELSE IF Len(decoded.value) % BlockSize # 0
        THEN [err |-> PANIC, value |-> << >>]
        ELSE [err |-> "none", value |-> SubSeq(bytestxt, 1, zeropos)]

CryptoInit ==
    /\ CoreIdle
    /\ RowIdle
    /\ RandIdle
    /\ ChainIdle
    /\ kkey \in Keys
    /\ kiv \in IVs
    /\ kplain \in Plaintexts
    /\ kcipher = << >>
    /\ kback = << >>
    /\ kpc = "plain"

CallEncrypt ==
    /\ kpc = "plain"
    /\ kcipher' = encryptAESCBCWithZeropadBytes(kplain, kkey, kiv)
    /\ kpc' = "encrypted"
    /\ UNCHANGED << kkey, kiv, kplain, kback >>
    /\ UNCHANGED << pipeVars, resolveVars, stageVars, rowVars, randVars,
                    chainVars >>

CallDecrypt ==
    /\ kpc = "encrypted"
    /\ LET r == decryptAESCBCZeropadBytes(kcipher, kkey, kiv)
       IN  IF r.err = "none"
           THEN /\ kback' = r.value
                /\ kpc' = "decrypted"
           ELSE /\ kpc' = "failed"
                /\ UNCHANGED kback
    /\ UNCHANGED << kkey, kiv, kplain, kcipher >>
    /\ UNCHANGED << pipeVars, resolveVars, stageVars, rowVars, randVars,
                    chainVars >>

CryptoNext ==
    \/ CallEncrypt
    \/ CallDecrypt

CryptoSpec == CryptoInit /\ [][CryptoNext]_vars

(***************************************************************************)
(* C34: the padded plaintext is the plaintext followed by zero bytes up to *)
(* the smallest multiple of the block size that is not below its length    *)
(* (none when the length is such a multiple, zero included); decrypting    *)
(* the text encrypting gave, with the same key and iv, succeeds and gives  *)
(* the bytes of the plaintext before its first zero byte; hence the        *)
(* plaintext itself when it has no zero byte.                              *)
(***************************************************************************)
HasZero(p) == \E i \in 1..Len(p) : p[i] = 0

C34_ZeropadRoundTrip ==
    /\ kpc # "failed"
    /\ kpc \in {"encrypted", "decrypted"} =>
           LET padded == paddedtxt(kplain)
           IN  /\ Len(padded) % BlockSize = 0
               /\ Len(padded) >= Len(kplain)
               /\ Len(padded) - Len(kplain) < BlockSize
               /\ SubSeq(padded, 1, Len(kplain)) = kplain
               /\ \A i \in (Len(kplain) + 1)..Len(padded) : padded[i] = 0
               /\ Len(kcipher) = 4 * ((Len(padded) + 2) \div 3)
    /\ kpc = "decrypted" =>
           /\ Len(kback) <= Len(kplain)
           /\ kback = SubSeq(kplain, 1, Len(kback))
           /\ ~HasZero(kback)
           /\ Len(kback) < Len(kplain) => kplain[Len(kback) + 1] = 0
           /\ ~HasZero(kplain) => kback = kplain

C34_Witness ==
    /\ kpc = "decrypted"
    /\ Len(kplain) = 2 * BlockSize
    /\ ~HasZero(kplain)
    /\ kback = kplain
    /\ kcipher # kplain
    /\ Len(kcipher) = 44

=============================================================================
